---- MODULE Spec2Model ----
(***************************************************************************)
(* A model of the jiminy cricket engine: the match state machine           *)
(* (GameState), the innings stats engine (InningsStats and its batting and *)
(* bowling halves) and the lineup rotation (BattingOrder, Bowlers).        *)
(*                                                                         *)
(* Rust values are modelled as follows.  Option<T> is a sequence of length *)
(* 0 (None) or 1 (Some).  A Vec is a sequence; the code's 0-based indices  *)
(* are kept as they are and a Vec v is read at index i as v[i + 1].  A     *)
(* struct is a record with the field names of the source.  A panic         *)
(* (expect, assert_eq!, unreachable!, a slice or index out of range) ends  *)
(* the program: the operators return the state as mutated up to the panic  *)
(* together with the panic's name, and no operation runs after it.         *)
(***************************************************************************)
EXTENDS Integers, Sequences, FiniteSets, TLC

VARIABLES
    form,                   \* GameState.form
    team_a,                 \* GameState.team_a
    team_b,                 \* GameState.team_b
    current_innings_stats,  \* GameState.current_innings_stats : Option<InningsStats>
    previous_innings,       \* GameState.previous_innings : Vec<InningsStats>
    panicked,               \* the panic that ended the program, or NoPanic
    outcomes,               \* the delivery outcomes the delivery model in use can produce
    budget,                 \* the number of deliveries the caller will still submit
    log,                    \* the caller's log of the operations submitted, if it keeps one
    returned,               \* the Result of the last call that returns one, if any
    overflow_checks,        \* whether the build panics on integer overflow (the dev and
                            \* test profiles) or wraps (the release profile)
    second                  \* a second GameState built from the same sides, with the log
                            \* of the operations submitted to it, if the caller holds one

vars == <<form, team_a, team_b, current_innings_stats, previous_innings,
          panicked, outcomes, budget, log, returned, overflow_checks, second>>

----------------------------------------------------------------------------
(* Option<T> *)

None == <<>>

Some(x) == <<x>>

is_some(o) == o /= <<>>

is_none(o) == o = <<>>

unwrap(o) == o[1]

(* Panics *)

NoPanic == "none"

PanicMatchOver == "Match is over!"

PanicNoCurrentInnings == "Must be a current innings"

PanicAssertAllOut == "assertion failed: wickets + 1 == batsmen_per_side"

PanicUnreachable == "unreachable"

PanicIndex == "index out of bounds"

PanicNoBatters == "Not enough batters in order"

PanicOverflow == "attempt to add with overflow"

PanicSlice == "range end index out of range for slice"

----------------------------------------------------------------------------
(* Sequence helpers *)

RECURSIVE SumSeq(_)
SumSeq(s) == IF s = <<>> THEN 0 ELSE s[1] + SumSeq(Tail(s))

RECURSIVE Reverse(_)
Reverse(s) == IF s = <<>> THEN <<>> ELSE Append(Reverse(Tail(s)), s[1])

\* Vec::pop's remainder
Front(s) == SubSeq(s, 1, Len(s) - 1)

----------------------------------------------------------------------------
(* Delivery outcomes: Runs, Extra, Dismissal, DeliveryOutcome *)

Running(n) == [tag |-> "Running", n |-> n]

Four == [tag |-> "Four", n |-> 0]

Six == [tag |-> "Six", n |-> 0]

Runs_runs(r) ==
    CASE r.tag = "Running" -> r.n
      [] r.tag = "Four" -> 4
      [] r.tag = "Six" -> 6

NoBall == [kind |-> "NoBall", runs |-> Running(0), n |-> 0]

Wide == [kind |-> "Wide", runs |-> Running(0), n |-> 0]

Bye(r) == [kind |-> "Bye", runs |-> r, n |-> 0]

LegBye(r) == [kind |-> "LegBye", runs |-> r, n |-> 0]

Penalty(k) == [kind |-> "Penalty", runs |-> Running(0), n |-> k]

Extra_runs(x) ==
    CASE x.kind \in {"NoBall", "Wide"} -> 1
      [] x.kind \in {"Bye", "LegBye"} -> Runs_runs(x.runs)
      [] x.kind = "Penalty" -> x.n

\* The dismissal kinds; the names of bowler and fielders are display data only.
Dismissals == {"Bowled", "Caught", "Lbw", "RunOutStriker", "RunOutNonStriker", "Stumped"}

DeliveryOutcome(w, r, ex) == [wicket |-> w, runs |-> r, extras |-> ex]

\* Default for DeliveryOutcome: a dot ball
DefaultDelivery == DeliveryOutcome(None, Running(0), <<>>)

\* legal counting a wide as a legal ball
legal_but_for_no_balls(ball) ==
    ~ \E i \in DOMAIN ball.extras : ball.extras[i].kind = "NoBall"

legal(ball) ==
    ~ \E i \in DOMAIN ball.extras : ball.extras[i].kind \in {"NoBall", "Wide"}

----------------------------------------------------------------------------
(* Teams and lineup rotation (team.rs) *)

\* The roster size of the test teams
N_PLAYERS == 11

\* Team::bowlers takes the roster slice [BowlFrom .. BowlTo)
BowlFrom == 5

BowlTo == 11

\* PlayerIds are unique over the teams
Team(id, n) == [id |-> id, players |-> [i \in 1..n |-> 100 * id + (i - 1)]]

\* impl PartialEq for Team: equality of ids
TeamEq(t, u) == t.id = u.id

\* Team::batting_order: remaining holds the roster indices in reverse order
batting_order(team) ==
    [batters |-> team.players,
     remaining |-> [i \in 1..Len(team.players) |-> Len(team.players) - i]]

\* BattingOrder::next: pop the last index; <<next state, Option<PlayerId>>>
BattingOrder_next(bo) ==
    IF bo.remaining = <<>>
    THEN [bo |-> bo, item |-> None]
    ELSE [bo |-> [bo EXCEPT !.remaining = Front(bo.remaining)],
          item |-> Some(bo.batters[bo.remaining[Len(bo.remaining)] + 1])]

\* Team::bowlers: panics when the roster has fewer than BowlTo players
bowlers_panics(team) == Len(team.players) < BowlTo

bowlers(team) ==
    LET bs == Reverse(SubSeq(team.players, BowlFrom + 1, BowlTo))
    IN  [bowlers |-> bs, last |-> bs[2]]

\* Bowlers::next returning the head of the list, whoever bowled last
Bowlers_next_first(b) ==
    [b |-> [b EXCEPT !.last = b.bowlers[1]], item |-> Some(b.bowlers[1])]

\* Bowlers::next: the first bowler of the list who is not `last`
Bowlers_next(b) ==
    LET i == CHOOSE k \in DOMAIN b.bowlers :
                 /\ b.bowlers[k] /= b.last
                 /\ \A j \in 1..(k - 1) : b.bowlers[j] = b.last
    IN  [b |-> [b EXCEPT !.last = b.bowlers[i]], item |-> Some(b.bowlers[i])]

----------------------------------------------------------------------------
(* Batting half of the innings stats engine: TeamBattingInningsStats *)

\* Default for BatterInningsStats
BatterInningsStats_default ==
    [runs |-> 0, balls |-> 0, out |-> None, fours |-> 0, sixes |-> 0]

\* One element of TeamBattingInningsStats.batters
BatterEntry(p) == [player |-> p, stats |-> BatterInningsStats_default]

\* TeamBattingInningsStats::new: [st, panic]; the two openers are drawn from the order
TeamBatting_new(team) ==
    LET n1 == BattingOrder_next(batting_order(team))
        n2 == BattingOrder_next(n1.bo)
    IN  IF is_none(n1.item) \/ is_none(n2.item)
        THEN [st |-> None, panic |-> PanicNoBatters]
        ELSE [st |-> Some([batting_order |-> n2.bo,
                           batters |-> <<BatterEntry(unwrap(n1.item)),
                                         BatterEntry(unwrap(n2.item))>>,
                           extras |-> 0,
                           batter_a |-> 0,
                           batter_b |-> 1,
                           striker_a |-> TRUE]),
              panic |-> NoPanic]

\* all_out asking for both crease slots to be past the end of batters
TeamBatting_all_out_both(self) ==
    /\ self.batter_a >= Len(self.batters)
    /\ self.batter_b >= Len(self.batters)

TeamBatting_all_out(self) ==
    \/ self.batter_a >= Len(self.batters)
    \/ self.batter_b >= Len(self.batters)

\* team_runs counting the runs off the bat only
TeamBatting_team_runs_off_bat(self) ==
    SumSeq([i \in DOMAIN self.batters |-> self.batters[i].stats.runs])

TeamBatting_team_runs(self) ==
    SumSeq([i \in DOMAIN self.batters |-> self.batters[i].stats.runs]) + self.extras

TeamBatting_wickets(self) ==
    Cardinality({i \in DOMAIN self.batters : is_some(self.batters[i].stats.out)})

\* switch_striker leaving the strike where it is
switch_striker_stays(self) == self

switch_striker(self) == [self EXCEPT !.striker_a = ~self.striker_a]

striker_idx(self) == IF self.striker_a THEN self.batter_a ELSE self.batter_b

non_striker_idx(self) == IF self.striker_a THEN self.batter_b ELSE self.batter_a

\* TeamBattingInningsStats::striker: Option is None where the code's assert! fails
striker(self) ==
    IF striker_idx(self) < Len(self.batters)
    THEN Some(self.batters[striker_idx(self) + 1].player)
    ELSE None

non_striker(self) ==
    IF non_striker_idx(self) < Len(self.batters)
    THEN Some(self.batters[non_striker_idx(self) + 1].player)
    ELSE None

\* The number of values of a u8: BatterInningsStats.fours and .sixes
U8 == 256

\* "striker_stats.fours += 1" or "striker_stats.sixes += 1" leaves the range of u8
boundary_count_overflows(st, ball) ==
    \/ ball.runs.tag = "Four" /\ st.fours + 1 >= U8
    \/ ball.runs.tag = "Six" /\ st.sixes + 1 >= U8

\* The striker's record after the ball count and the runs off the bat are added
striker_after_runs(st, ball) ==
    LET b == [st EXCEPT !.balls = IF legal(ball) THEN @ + 1 ELSE @]
    IN  CASE ball.runs.tag = "Running" -> [b EXCEPT !.runs = @ + ball.runs.n]
          [] ball.runs.tag = "Four" -> [b EXCEPT !.runs = @ + 4, !.fours = (@ + 1) % U8]
          [] ball.runs.tag = "Six" -> [b EXCEPT !.runs = @ + 6, !.sixes = (@ + 1) % U8]

\* Sum of the runs of all extras of the delivery
extras_sum(ball) == SumSeq([i \in DOMAIN ball.extras |-> Extra_runs(ball.extras[i])])

\* The bye and leg-bye extras whose sub-runs are not Running(_): the loop's
\* match reaches unreachable!() on them
bye_is_boundary(ball) ==
    \E i \in DOMAIN ball.extras :
        /\ ball.extras[i].kind \in {"Bye", "LegBye"}
        /\ ball.extras[i].runs.tag /= "Running"

\* must_switch looking at the runs off the bat only
must_switch_off_bat(ball) == ball.runs.tag = "Running" /\ ball.runs.n % 2 = 1

\* The local flag switch_striker at the end of update
must_switch(ball) ==
    LET run_odd == IF ball.runs.tag = "Running" /\ ball.runs.n % 2 = 1 THEN 1 ELSE 0
        bye_odd == Cardinality({i \in DOMAIN ball.extras :
                                   /\ ball.extras[i].kind \in {"Bye", "LegBye"}
                                   /\ ball.extras[i].runs.tag = "Running"
                                   /\ ball.extras[i].runs.n % 2 = 1})
    IN  (run_odd + bye_odd) % 2 = 1

\* The index of the batter a dismissal marks out
\* out_idx marking the striker out whatever the dismissal
out_idx_striker(self, wicket) == striker_idx(self)

out_idx(self, wicket) ==
    IF wicket = "RunOutNonStriker" THEN non_striker_idx(self) ELSE striker_idx(self)

\* replace_if_out writing the next batter over the record of the one who is out
replace_if_out_in_place(self, slot) ==
    LET idx == IF slot = "a" THEN self.batter_a ELSE self.batter_b
    IN  IF is_some(self.batters[idx + 1].stats.out)
        THEN LET nx == BattingOrder_next(self.batting_order)
             IN  IF is_some(nx.item)
                 THEN [self EXCEPT !.batting_order = nx.bo,
                                   !.batters[idx + 1] = BatterEntry(unwrap(nx.item))]
                 ELSE IF slot = "a"
                 THEN [self EXCEPT !.batter_a = Len(self.batters)]
                 ELSE [self EXCEPT !.batter_b = Len(self.batters)]
        ELSE self

\* "Replace batters if they've been made out", for the slot named by `slot`
replace_if_out(self, slot) ==
    LET idx == IF slot = "a" THEN self.batter_a ELSE self.batter_b
    IN  IF is_some(self.batters[idx + 1].stats.out)
        THEN LET nx == BattingOrder_next(self.batting_order)
                 moved == IF slot = "a"
                          THEN [self EXCEPT !.batter_a = Len(self.batters)]
                          ELSE [self EXCEPT !.batter_b = Len(self.batters)]
             IN  IF is_some(nx.item)
                 THEN [moved EXCEPT !.batting_order = nx.bo,
                                    !.batters = Append(@, BatterEntry(unwrap(nx.item)))]
                 ELSE [moved EXCEPT !.batting_order = nx.bo]
        ELSE self

\* update once both crease slots are refilled: the strike is switched if due
batting_switched(s4, ball) ==
    [st |-> IF must_switch(ball) THEN switch_striker(s4) ELSE s4, panic |-> NoPanic]

\* update once the slot of batter_a is refilled: the slot of batter_b
batting_replaced_a(s3, ball) ==
    IF s3.batter_b >= Len(s3.batters)
    THEN [st |-> s3, panic |-> PanicIndex]
    ELSE batting_switched(replace_if_out(s3, "b"), ball)

\* update once the dismissal is marked: the slot of batter_a
batting_marked(s2, ball) ==
    IF s2.batter_a >= Len(s2.batters)
    THEN [st |-> s2, panic |-> PanicIndex]
    ELSE batting_replaced_a(replace_if_out(s2, "a"), ball)

\* update once the runs and extras are added (s1): the byes, then the batter
\* who is out, an index into the batters of self
batting_scored(self, s1, ball) ==
    IF bye_is_boundary(ball)
    THEN [st |-> s1, panic |-> PanicUnreachable]
    ELSE IF is_some(ball.wicket) /\ out_idx(self, unwrap(ball.wicket)) >= Len(self.batters)
    THEN [st |-> s1, panic |-> PanicIndex]
    ELSE batting_marked(
             IF is_some(ball.wicket)
             THEN [s1 EXCEPT !.batters[out_idx(self, unwrap(ball.wicket)) + 1].stats.out
                                 = ball.wicket]
             ELSE s1,
             ball)

\* TeamBattingInningsStats::update: [st, panic]
TeamBatting_update(self, ball) ==
    IF striker_idx(self) >= Len(self.batters)
    THEN [st |-> self, panic |-> PanicIndex]
    ELSE IF /\ overflow_checks
            /\ boundary_count_overflows(self.batters[striker_idx(self) + 1].stats, ball)
    THEN [st |-> self, panic |-> PanicOverflow]
    ELSE batting_scored(
             self,
             [self EXCEPT
                !.batters[striker_idx(self) + 1].stats = striker_after_runs(@, ball),
                !.extras = @ + extras_sum(ball)],
             ball)

----------------------------------------------------------------------------
(* Bowling half of the innings stats engine: TeamBowlingInningsStats *)

\* Default for BowlerInningsStats
BowlerInningsStats_default ==
    [balls |-> 0, maiden_overs |-> 0, runs |-> 0, wickets |-> 0,
     wides |-> 0, no_balls |-> 0]

\* One element of TeamBowlingInningsStats.bowler_stats
BowlerEntry(p) == [player |-> p, stats |-> BowlerInningsStats_default]

\* TeamBowlingInningsStats::new: [st, panic]
TeamBowling_new(team) ==
    IF bowlers_panics(team)
    THEN [st |-> None, panic |-> PanicSlice]
    ELSE LET nx == Bowlers_next(bowlers(team))
         IN  [st |-> Some([bowlers |-> nx.b,
                           bowler_stats |-> <<BowlerEntry(unwrap(nx.item))>>,
                           current_bowler_index |-> 0,
                           current_over_maiden |-> TRUE]),
              panic |-> NoPanic]

\* The number of extras of the given kind on the delivery
count_extras(ball, kind) ==
    Cardinality({i \in DOMAIN ball.extras : ball.extras[i].kind = kind})

\* The terms of the local bowler_runs: runs off the bat, and one run for each
\* no-ball and each wide among the extras
chargeable_runs(ball) ==
    Runs_runs(ball.runs)
      + SumSeq([i \in DOMAIN ball.extras |->
                   IF ball.extras[i].kind \in {"NoBall", "Wide"}
                   THEN Extra_runs(ball.extras[i]) ELSE 0])

\* The u8 sum of bowler_runs does not fit: the build with overflow checks panics
bowler_runs_overflows(ball) == chargeable_runs(ball) >= U8

\* bowler_runs counting the runs of every extra
bowler_runs_all_extras(ball) ==
    (Runs_runs(ball.runs)
       + SumSeq([i \in DOMAIN ball.extras |-> Extra_runs(ball.extras[i])])) % U8

\* The local bowler_runs : u8 of update: runs off the bat plus no-ball and wide runs
bowler_runs(ball) == chargeable_runs(ball) % U8

\* update crediting the bowler with no run-out
TeamBowling_update_no_run_outs(self, ball) ==
    [self EXCEPT
       !.bowler_stats[self.current_bowler_index + 1].stats =
           [@ EXCEPT !.balls = IF legal(ball) THEN @ + 1 ELSE @,
                     !.runs = @ + bowler_runs(ball),
                     !.wides = @ + count_extras(ball, "Wide"),
                     !.no_balls = @ + count_extras(ball, "NoBall"),
                     !.wickets = IF ball.wicket \in {Some("RunOutStriker"),
                                                     Some("RunOutNonStriker"), None}
                                 THEN @ ELSE @ + 1],
       !.current_over_maiden = IF bowler_runs(ball) > 0 THEN FALSE ELSE @]

\* update with every run of the delivery spoiling the maiden, byes included
TeamBowling_update_byes_spoil(self, ball) ==
    [self EXCEPT
       !.bowler_stats[self.current_bowler_index + 1].stats =
           [@ EXCEPT !.balls = IF legal(ball) THEN @ + 1 ELSE @,
                     !.runs = @ + bowler_runs(ball),
                     !.wides = @ + count_extras(ball, "Wide"),
                     !.no_balls = @ + count_extras(ball, "NoBall"),
                     !.wickets = IF is_some(ball.wicket) THEN @ + 1 ELSE @],
       !.current_over_maiden =
           IF Runs_runs(ball.runs) + extras_sum(ball) > 0 THEN FALSE ELSE @]

\* TeamBowlingInningsStats::update
TeamBowling_update(self, ball) ==
    [self EXCEPT
       !.bowler_stats[self.current_bowler_index + 1].stats =
           [@ EXCEPT !.balls = IF legal(ball) THEN @ + 1 ELSE @,
                     !.runs = @ + bowler_runs(ball),
                     !.wides = @ + count_extras(ball, "Wide"),
                     !.no_balls = @ + count_extras(ball, "NoBall"),
                     !.wickets = IF is_some(ball.wicket) THEN @ + 1 ELSE @],
       !.current_over_maiden = IF bowler_runs(ball) > 0 THEN FALSE ELSE @]

\* iter().position(|(b, _)| b == &next_bowler): the 0-based index, or None
bowler_position(self, p) ==
    IF \E i \in DOMAIN self.bowler_stats : self.bowler_stats[i].player = p
    THEN Some((CHOOSE i \in DOMAIN self.bowler_stats :
                  /\ self.bowler_stats[i].player = p
                  /\ \A j \in 1..(i - 1) : self.bowler_stats[j].player /= p) - 1)
    ELSE None

\* new_over drawing on the state of its caller: the bowler changes only when an
\* even number of deliveries is still to come
new_over_ambient(self) ==
    LET s1 == [self EXCEPT
                 !.bowler_stats[self.current_bowler_index + 1].stats.maiden_overs =
                     IF self.current_over_maiden THEN @ + 1 ELSE @,
                 !.current_over_maiden = TRUE]
        nx == Bowlers_next(s1.bowlers)
        next_bowler == unwrap(nx.item)
        pos == bowler_position(s1, next_bowler)
    IN  IF budget % 2 = 1
        THEN s1
        ELSE IF is_some(pos)
        THEN [s1 EXCEPT !.bowlers = nx.b, !.current_bowler_index = unwrap(pos)]
        ELSE [s1 EXCEPT !.bowlers = nx.b,
                        !.bowler_stats = Append(@, BowlerEntry(next_bowler)),
                        !.current_bowler_index = Len(s1.bowler_stats)]

\* new_over giving every over a record of its own
new_over_always_appends(self) ==
    LET s1 == [self EXCEPT
                 !.bowler_stats[self.current_bowler_index + 1].stats.maiden_overs =
                     IF self.current_over_maiden THEN @ + 1 ELSE @,
                 !.current_over_maiden = TRUE]
        nx == Bowlers_next(s1.bowlers)
    IN  [s1 EXCEPT !.bowlers = nx.b,
                   !.bowler_stats = Append(@, BowlerEntry(unwrap(nx.item))),
                   !.current_bowler_index = Len(s1.bowler_stats)]

\* TeamBowlingInningsStats::new_over
new_over(self) ==
    LET s1 == [self EXCEPT
                 !.bowler_stats[self.current_bowler_index + 1].stats.maiden_overs =
                     IF self.current_over_maiden THEN @ + 1 ELSE @,
                 !.current_over_maiden = TRUE]
        nx == Bowlers_next(s1.bowlers)
        next_bowler == unwrap(nx.item)
        pos == bowler_position(s1, next_bowler)
    IN  IF is_some(pos)
        THEN [s1 EXCEPT !.bowlers = nx.b, !.current_bowler_index = unwrap(pos)]
        ELSE [s1 EXCEPT !.bowlers = nx.b,
                        !.bowler_stats = Append(@, BowlerEntry(next_bowler)),
                        !.current_bowler_index = Len(s1.bowler_stats)]

\* TeamBowlingInningsStats::current_bowler
current_bowler(self) == self.bowler_stats[self.current_bowler_index + 1].player

----------------------------------------------------------------------------
(* InningsStats: the two halves and the over count *)

\* InningsStats::new building each half from the other side's team
InningsStats_new_swapped(batting_team, bowling_team, balls_per_over) ==
    LET bat == TeamBatting_new(bowling_team)
        bowl == TeamBowling_new(batting_team)
    IN  IF bat.panic /= NoPanic THEN [st |-> None, panic |-> bat.panic]
        ELSE IF bowl.panic /= NoPanic THEN [st |-> None, panic |-> bowl.panic]
        ELSE [st |-> Some([batting_team |-> batting_team,
                           bowling_team |-> bowling_team,
                           batting_stats |-> unwrap(bat.st),
                           bowling_stats |-> unwrap(bowl.st),
                           overs |-> 0,
                           balls |-> 0,
                           balls_per_over |-> balls_per_over]),
              panic |-> NoPanic]

\* InningsStats::new: [st, panic]
InningsStats_new(batting_team, bowling_team, balls_per_over) ==
    LET bat == TeamBatting_new(batting_team)
        bowl == TeamBowling_new(bowling_team)
    IN  IF bat.panic /= NoPanic THEN [st |-> None, panic |-> bat.panic]
        ELSE IF bowl.panic /= NoPanic THEN [st |-> None, panic |-> bowl.panic]
        ELSE [st |-> Some([batting_team |-> batting_team,
                           bowling_team |-> bowling_team,
                           batting_stats |-> unwrap(bat.st),
                           bowling_stats |-> unwrap(bowl.st),
                           overs |-> 0,
                           balls |-> 0,
                           balls_per_over |-> balls_per_over]),
              panic |-> NoPanic]

InningsStats_all_out(self) == TeamBatting_all_out(self.batting_stats)

InningsStats_runs(self) == TeamBatting_team_runs(self.batting_stats)

InningsStats_wickets(self) == TeamBatting_wickets(self.batting_stats)

\* over_complete with the comparison > : the over runs one ball too long
over_overrun(self, balls) == balls > self.balls_per_over

\* "if self.balls >= self.balls_per_over": the delivery completed the over
over_complete(self, balls) == balls >= self.balls_per_over

\* The panic of the two updates of InningsStats::update, if any: that of the
\* batting half, or else the overflow of bowler_runs in the bowling half
halves_panic(batting_panic, ball) ==
    IF batting_panic /= NoPanic
    THEN batting_panic
    ELSE IF overflow_checks /\ bowler_runs_overflows(ball)
    THEN PanicOverflow
    ELSE NoPanic

\* the end of InningsStats::update: the over is closed when it is complete
innings_rolled(s1) ==
    IF over_complete(s1, s1.balls)
    THEN [s1 EXCEPT !.balls = 0,
                    !.overs = @ + 1,
                    !.batting_stats = switch_striker(@),
                    !.bowling_stats = new_over(@)]
    ELSE s1

\* InningsStats::update given the result bat of the batting half
innings_with_batting(self, ball, bat) ==
    IF halves_panic(bat.panic, ball) /= NoPanic
    THEN [st |-> [self EXCEPT !.batting_stats = bat.st],
          panic |-> halves_panic(bat.panic, ball)]
    ELSE [st |-> innings_rolled([self EXCEPT
                     !.batting_stats = bat.st,
                     !.bowling_stats = TeamBowling_update(@, ball),
                     !.balls = IF legal(ball) THEN @ + 1 ELSE @]),
          panic |-> NoPanic]

\* InningsStats::update: [st, panic]
InningsStats_update(self, ball) ==
    innings_with_batting(self, ball, TeamBatting_update(self.batting_stats, ball))

----------------------------------------------------------------------------
(* The match state machine: GameState (game.rs) *)

\* form::Form; overs_per_innings is an Option<u16>
Form(innings, overs_per_innings, balls_per_over, batsmen_per_side) ==
    [innings |-> innings,
     overs_per_innings |-> overs_per_innings,
     balls_per_over |-> balls_per_over,
     batsmen_per_side |-> batsmen_per_side]

\* Default for Form, Form::test
Form_test == Form(2, None, 6, 11)

\* Form::odi, Form::t20
Form_odi == Form(1, Some(50), 6, 11)

Form_t20 == Form(1, Some(20), 6, 11)

\* The deficit at which the side that just batted bats again
FollowOnDeficit == 150

\* The GameState struct as one value
GameState(f, ta, tb, cur, prev) ==
    [form |-> f, team_a |-> ta, team_b |-> tb,
     current_innings_stats |-> cur, previous_innings |-> prev]

\* GameState::new: [st, panic]
GameState_new(rules, ta, tb) ==
    LET inn == InningsStats_new(ta, tb, rules.balls_per_over)
    IN  [st |-> GameState(rules, ta, tb, inn.st, <<>>), panic |-> inn.panic]

\* GameState::complete
complete(self) == is_none(self.current_innings_stats)

\* team_score with the innings in progress left out
team_score_archived(self, team) ==
    SumSeq([i \in DOMAIN self.previous_innings |->
               IF TeamEq(self.previous_innings[i].batting_team, team)
               THEN InningsStats_runs(self.previous_innings[i])
               ELSE 0])

\* GameState::team_score
team_score(self, team) ==
    SumSeq([i \in DOMAIN self.previous_innings |->
               IF TeamEq(self.previous_innings[i].batting_team, team)
               THEN InningsStats_runs(self.previous_innings[i])
               ELSE 0])
    + (IF is_some(self.current_innings_stats)
          /\ TeamEq(unwrap(self.current_innings_stats).batting_team, team)
       THEN InningsStats_runs(unwrap(self.current_innings_stats))
       ELSE 0)

\* all_innings_played with the comparison > : one innings too many is started
all_innings_exceeded(self) == Len(self.previous_innings) > 2 * self.form.innings

\* "if self.previous_innings.len() >= 2 * self.form.innings": all innings are played
all_innings_played(self) == Len(self.previous_innings) >= 2 * self.form.innings

\* last_innings counting one innings more: the innings before the last passes for it
last_innings_early(self) == Len(self.previous_innings) + 2 = 2 * self.form.innings

\* "self.previous_innings.len() + 1 == 2 * self.form.innings": one innings is left
last_innings(self) == Len(self.previous_innings) + 1 = 2 * self.form.innings

\* match_called with the comparison <= : a level match is called as well
match_called_or_level(self, last_batting_runs, last_bowling_runs) ==
    last_innings(self) /\ last_batting_runs <= last_bowling_runs

\* new_innings: the side that just batted has no innings left and is behind
match_called(self, last_batting_runs, last_bowling_runs) ==
    last_innings(self) /\ last_batting_runs < last_bowling_runs

\* follow_on without the test of the innings count: it fires after any innings
follow_on_any_count(self, last_batting_runs, last_bowling_runs) ==
    last_batting_runs + FollowOnDeficit <= last_bowling_runs

\* follow_on with the comparison < : a deficit of exactly 150 does not count
follow_on_strict(self, last_batting_runs, last_bowling_runs) ==
    /\ Len(self.previous_innings) % 2 = 0
    /\ last_batting_runs + FollowOnDeficit < last_bowling_runs

\* new_innings: the side that just batted bats again
follow_on(self, last_batting_runs, last_bowling_runs) ==
    /\ Len(self.previous_innings) % 2 = 0
    /\ last_batting_runs + FollowOnDeficit <= last_bowling_runs

\* next_teams with the same pair in both branches: the sides never swap
next_teams_unswapped(self, last_batting_team, last_bowling_team) ==
    IF follow_on(self, team_score(self, last_batting_team),
                       team_score(self, last_bowling_team))
    THEN <<last_batting_team, last_bowling_team>>
    ELSE <<last_batting_team, last_bowling_team>>

\* new_innings: <<next_batting_team, next_bowling_team>>
next_teams(self, last_batting_team, last_bowling_team) ==
    IF follow_on(self, team_score(self, last_batting_team),
                       team_score(self, last_bowling_team))
    THEN <<last_batting_team, last_bowling_team>>
    ELSE <<last_bowling_team, last_batting_team>>

\* new_innings archiving the innings and keeping it on as the current one
archive_and_revive(self) ==
    LET last_innings_stats == unwrap(self.current_innings_stats)
        s1 == [self EXCEPT !.previous_innings = Append(@, last_innings_stats)]
    IN  IF all_innings_played(s1)
        THEN [st |-> [s1 EXCEPT !.current_innings_stats = None], panic |-> NoPanic]
        ELSE [st |-> s1, panic |-> NoPanic]

\* new_innings after the take(): archive the innings, then decide what follows
archive_and_continue(self) ==
    LET last_innings_stats == unwrap(self.current_innings_stats)
        last_batting_team == last_innings_stats.batting_team
        last_bowling_team == last_innings_stats.bowling_team
        s1 == [self EXCEPT !.current_innings_stats = None,
                           !.previous_innings = Append(@, last_innings_stats)]
    IN  IF all_innings_played(s1)
        THEN [st |-> s1, panic |-> NoPanic]
        ELSE IF match_called(s1, team_score(s1, last_batting_team),
                                 team_score(s1, last_bowling_team))
        THEN [st |-> s1, panic |-> NoPanic]
        ELSE LET nt == next_teams(s1, last_batting_team, last_bowling_team)
                 inn == InningsStats_new(nt[1], nt[2], self.form.balls_per_over)
             IN  [st |-> [s1 EXCEPT !.current_innings_stats = inn.st],
                  panic |-> inn.panic]

\* GameState::new_innings: [st, panic]
GameState_new_innings(self) ==
    IF is_none(self.current_innings_stats)
    THEN [st |-> self, panic |-> PanicNoCurrentInnings]
    ELSE archive_and_continue(self)

\* GameState::declare: [st, panic]
GameState_declare(self) == GameState_new_innings(self)

\* overs_exhausted with the comparison > : the innings runs one over past the cap
overs_exceeded(self, innings_stats) ==
    /\ is_some(self.form.overs_per_innings)
    /\ innings_stats.overs > unwrap(self.form.overs_per_innings)

\* update: "if let Some(opi) = self.form.overs_per_innings { if overs >= opi"
overs_exhausted(self, innings_stats) ==
    /\ is_some(self.form.overs_per_innings)
    /\ innings_stats.overs >= unwrap(self.form.overs_per_innings)

\* overtaken with the comparison >= : a delivery that levels the scores ends the match
overtaken_or_level(self, innings_stats) ==
    /\ last_innings(self)
    /\ team_score(self, innings_stats.batting_team)
         >= team_score(self, innings_stats.bowling_team)

\* update: the batting side of the last innings has passed the bowling side
overtaken(self, innings_stats) ==
    /\ last_innings(self)
    /\ team_score(self, innings_stats.batting_team)
         > team_score(self, innings_stats.bowling_team)

\* update: assert_eq!(innings_stats.wickets() + 1, self.form.batsmen_per_side)
all_out_assertion(self, innings_stats) ==
    InningsStats_wickets(innings_stats) + 1 = self.form.batsmen_per_side

\* The end of update: s1 holds the updated innings innings_stats, and the
\* innings changes when it is over
update_decided(s1, innings_stats, panic) ==
    IF panic /= NoPanic
    THEN [st |-> s1, panic |-> panic]
    ELSE IF InningsStats_all_out(innings_stats) /\ ~all_out_assertion(s1, innings_stats)
    THEN [st |-> s1, panic |-> PanicAssertAllOut]
    ELSE IF \/ InningsStats_all_out(innings_stats)
            \/ overs_exhausted(s1, innings_stats)
            \/ overtaken(s1, innings_stats)
    THEN GameState_new_innings(s1)
    ELSE [st |-> s1, panic |-> NoPanic]

\* The match once the innings in progress is updated with the result upd
update_with(self, upd) ==
    update_decided([self EXCEPT !.current_innings_stats = Some(upd.st)], upd.st, upd.panic)

\* update on a match that has a current innings: the stats, then the innings change
update_current(self, ball) ==
    update_with(self, InningsStats_update(unwrap(self.current_innings_stats), ball))

\* GameState::update accepting a delivery on a complete match as a silent no-op
GameState_update_silent(self, ball) ==
    IF is_none(self.current_innings_stats)
    THEN [st |-> self, panic |-> NoPanic]
    ELSE update_current(self, ball)

\* GameState::update: [st, panic]
GameState_update(self, ball) ==
    IF is_none(self.current_innings_stats)
    THEN [st |-> self, panic |-> PanicMatchOver]
    ELSE update_current(self, ball)

----------------------------------------------------------------------------
(* The constructors of game/stats.rs, which return a Result: [st, panic, err] *)

ErrMissingData == "MissingData"

Ok == "Ok"

\* game/stats.rs TeamBattingInningsStats::new
stats_TeamBatting_new(team) ==
    LET n1 == BattingOrder_next(batting_order(team))
        n2 == BattingOrder_next(n1.bo)
    IN  IF is_none(n1.item) \/ is_none(n2.item)
        THEN [st |-> None, panic |-> NoPanic, err |-> Some(ErrMissingData)]
        ELSE [st |-> Some([batting_order |-> n2.bo,
                           batters |-> <<BatterEntry(unwrap(n1.item)),
                                         BatterEntry(unwrap(n2.item))>>,
                           extras |-> 0,
                           batter_a |-> 0,
                           batter_b |-> 1,
                           striker_a |-> TRUE]),
              panic |-> NoPanic,
              err |-> None]

\* game/stats.rs TeamBowlingInningsStats::new: team.bowlers() comes first
stats_TeamBowling_new(team) ==
    IF bowlers_panics(team)
    THEN [st |-> None, panic |-> PanicSlice, err |-> None]
    ELSE LET nx == Bowlers_next(bowlers(team))
         IN  IF is_none(nx.item)
             THEN [st |-> None, panic |-> NoPanic, err |-> Some(ErrMissingData)]
             ELSE [st |-> Some([bowlers |-> nx.b,
                                bowler_stats |-> <<BowlerEntry(unwrap(nx.item))>>,
                                current_bowler_index |-> 0,
                                current_over_maiden |-> TRUE]),
                   panic |-> NoPanic,
                   err |-> None]

\* game/stats.rs InningsStats::new: the batting half, then the bowling half, each with `?`
stats_InningsStats_new(batting_team, bowling_team, balls_per_over) ==
    LET bat == stats_TeamBatting_new(batting_team)
        bowl == stats_TeamBowling_new(bowling_team)
    IN  IF is_none(bat.st) THEN bat
        ELSE IF is_none(bowl.st) THEN bowl
        ELSE [st |-> Some([batting_team |-> batting_team,
                           bowling_team |-> bowling_team,
                           batting_stats |-> unwrap(bat.st),
                           bowling_stats |-> unwrap(bowl.st),
                           overs |-> 0,
                           balls |-> 0,
                           balls_per_over |-> balls_per_over]),
              panic |-> NoPanic,
              err |-> None]

\* GameState::new(rules, &team_a, &team_b)? as lib.rs calls it: the first
\* innings is built with InningsStats::new(team_a, team_b, ..)? and its failure
\* is the failure of the construction
GameState_new_result(rules, ta, tb) ==
    LET inn == stats_InningsStats_new(ta, tb, rules.balls_per_over)
    IN  [st |-> GameState(rules, ta, tb, inn.st, <<>>), panic |-> inn.panic, err |-> inn.err]

\* Error::PlayerNotFound
ErrPlayerNotFound == "PlayerNotFound"

\* The wicket of a delivery as game/stats.rs reads it: (out_id, wicket)
WicketOf(out_id, wicket) == [out_id |-> out_id, wicket |-> wicket]

\* batters.iter_mut().find(|(id, _)| id == out_id): the 0-based index, or None
batter_position(self, out_id) ==
    IF \E i \in DOMAIN self.batters : self.batters[i].player = out_id
    THEN Some((CHOOSE i \in DOMAIN self.batters :
                  /\ self.batters[i].player = out_id
                  /\ \A j \in 1..(i - 1) : self.batters[j].player /= out_id) - 1)
    ELSE None

\* game/stats.rs TeamBattingInningsStats::update from "Replace batters if
\* they've been made out" on, given whether the strike switches
stats_replace_and_switch(s2, switch) ==
    IF s2.batter_a >= Len(s2.batters)
    THEN [st |-> s2, panic |-> PanicIndex, err |-> None]
    ELSE IF replace_if_out(s2, "a").batter_b >= Len(replace_if_out(s2, "a").batters)
    THEN [st |-> replace_if_out(s2, "a"), panic |-> PanicIndex, err |-> None]
    ELSE [st |-> IF switch
                 THEN switch_striker(replace_if_out(replace_if_out(s2, "a"), "b"))
                 ELSE replace_if_out(replace_if_out(s2, "a"), "b"),
          panic |-> NoPanic,
          err |-> None]

\* The same from "Check for wickets in the outcome" on: s1 has the runs and
\* extras of the delivery, pos is what find returned
stats_mark_out(s1, ball, pos) ==
    IF is_none(ball.wicket)
    THEN stats_replace_and_switch(s1, must_switch(ball))
    ELSE IF is_none(pos)
    THEN [st |-> s1, panic |-> NoPanic, err |-> Some(ErrPlayerNotFound)]
    ELSE stats_replace_and_switch(
             [s1 EXCEPT !.batters[unwrap(pos) + 1].stats.out
                            = Some(unwrap(ball.wicket).wicket)],
             must_switch(ball))

\* game/stats.rs TeamBattingInningsStats::update: [st, panic, err]
stats_TeamBatting_update(self, ball) ==
    IF striker_idx(self) >= Len(self.batters)
    THEN [st |-> self, panic |-> PanicIndex, err |-> None]
    ELSE IF /\ overflow_checks
            /\ boundary_count_overflows(self.batters[striker_idx(self) + 1].stats, ball)
    THEN [st |-> self, panic |-> PanicOverflow, err |-> None]
    ELSE IF bye_is_boundary(ball)
    THEN [st |-> [self EXCEPT
                    !.batters[striker_idx(self) + 1].stats = striker_after_runs(@, ball),
                    !.extras = @ + extras_sum(ball)],
          panic |-> PanicUnreachable,
          err |-> None]
    ELSE stats_mark_out(
             [self EXCEPT
                !.batters[striker_idx(self) + 1].stats = striker_after_runs(@, ball),
                !.extras = @ + extras_sum(ball)],
             ball,
             IF is_some(ball.wicket)
             THEN batter_position(self, unwrap(ball.wicket).out_id)
             ELSE None)

\* game/stats.rs InningsStats::update after self.batting_stats.update(ball)?
\* returned Ok: the bowling half, the ball count and the over
stats_after_batting(s1) ==
    IF over_complete(s1, s1.balls)
    THEN [s1 EXCEPT !.balls = 0,
                    !.overs = @ + 1,
                    !.batting_stats = switch_striker(@),
                    !.bowling_stats = new_over(@)]
    ELSE s1

\* game/stats.rs InningsStats::update, bat being what the batting half
\* returned: its failure is returned at once by the `?`
stats_with_batting(self, ball, bat) ==
    IF halves_panic(bat.panic, ball) /= NoPanic \/ is_some(bat.err)
    THEN [st |-> [self EXCEPT !.batting_stats = bat.st],
          panic |-> halves_panic(bat.panic, ball),
          err |-> bat.err]
    ELSE [st |-> stats_after_batting(
                     [self EXCEPT
                        !.batting_stats = bat.st,
                        !.bowling_stats = TeamBowling_update(@, ball),
                        !.balls = IF legal(ball) THEN @ + 1 ELSE @]),
          panic |-> NoPanic,
          err |-> None]

\* game/stats.rs InningsStats::update: [st, panic, err]
stats_InningsStats_update(self, ball) ==
    stats_with_batting(self, ball, stats_TeamBatting_update(self.batting_stats, ball))

----------------------------------------------------------------------------
(* The state machine *)

\* The GameState held by the variables
Self == GameState(form, team_a, team_b, current_innings_stats, previous_innings)

\* The variables take the fields of the GameState g and the panic p
Becomes(g, p) ==
    /\ form' = g.form
    /\ team_a' = g.team_a
    /\ team_b' = g.team_b
    /\ current_innings_stats' = g.current_innings_stats
    /\ previous_innings' = g.previous_innings
    /\ panicked' = p

\* The match takes the result r = [st, panic] of an operation
Takes(r) == Becomes(r.st, r.panic)

\* The state after GameState::new(rules, Team(1, na), Team(2, nb)), the caller
\* holding a delivery model with the outcomes `menu`, submitting at most n
\* deliveries and keeping the log `journal` (None: no log is kept)

InitLogged(rules, na, nb, menu, n, journal) ==
    LET g == GameState_new(rules, Team(1, na), Team(2, nb))
    IN  /\ form = g.st.form
        /\ team_a = g.st.team_a
        /\ team_b = g.st.team_b
        /\ current_innings_stats = g.st.current_innings_stats
        /\ previous_innings = g.st.previous_innings
        /\ panicked = g.panic
        /\ outcomes = menu
        /\ budget = n
        /\ log = journal
        /\ returned = None
        /\ overflow_checks \in BOOLEAN
        /\ second = None

\* The same, the caller keeping no log
InitWith(rules, na, nb, menu, n) == InitLogged(rules, na, nb, menu, n, None)

\* One entry of the caller's log
UpdateOp(ball) == [op |-> "update", ball |-> ball]

DeclareOp == [op |-> "declare", ball |-> DefaultDelivery]

\* The caller's log after the operation `entry` is submitted
Logged(entry) == IF is_some(log) THEN Some(Append(unwrap(log), entry)) ELSE None

\* state.update(&ball)
Update(ball) ==
    /\ panicked = NoPanic
    /\ budget > 0
    /\ ball \in outcomes
    /\ Takes(GameState_update(Self, ball))
    /\ budget' = budget - 1
    /\ log' = Logged(UpdateOp(ball))
    /\ UNCHANGED <<outcomes, returned, overflow_checks, second>>

\* state.declare()
Declare ==
    /\ panicked = NoPanic
    /\ Takes(GameState_declare(Self))
    /\ log' = Logged(DeclareOp)
    /\ UNCHANGED <<outcomes, budget, returned, overflow_checks, second>>

\* One turn of the simulation loop: while !state.complete() { state.update(&ball) }
SimStep(ball) ==
    /\ ~complete(Self)
    /\ Update(ball)

Next ==
    \/ \E ball \in outcomes : Update(ball)
    \/ Declare

\* The simulation loop alone
NextSim == \E ball \in outcomes : SimStep(ball)

\* One turn of the simulation loop in which the delivery model returns a
\* dismissal; the budget of the caller counts the other deliveries only
SimDismissal(ball) ==
    /\ is_some(ball.wicket)
    /\ ball \in outcomes
    /\ panicked = NoPanic
    /\ ~complete(Self)
    /\ Takes(GameState_update(Self, ball))
    /\ log' = Logged(UpdateOp(ball))
    /\ UNCHANGED <<outcomes, budget, returned, overflow_checks, second>>

\* One turn of the simulation loop in which it returns no dismissal
SimOther(ball) ==
    /\ is_none(ball.wicket)
    /\ SimStep(ball)

Dismissed == \E ball \in outcomes : SimDismissal(ball)

NotDismissed == \E ball \in outcomes : SimOther(ball)

\* The simulation loop, dismissals told from the other deliveries
NextLive == Dismissed \/ NotDismissed

\* The handle of the second match reaching the first match instead
SecondSelf_aliased == Self

\* The second match: its own fields, and the sides both matches refer to
SecondSelf ==
    GameState(unwrap(second).form, team_a, team_b,
              unwrap(second).current_innings_stats, unwrap(second).previous_innings)

\* The second match takes the fields of the GameState g and the panic p, and
\* its log the operation `entry`
SecondBecomes(g, p, entry) ==
    /\ second' = Some([form |-> g.form,
                       current_innings_stats |-> g.current_innings_stats,
                       previous_innings |-> g.previous_innings,
                       log |-> Append(unwrap(second).log, entry)])
    /\ team_a' = g.team_a
    /\ team_b' = g.team_b
    /\ panicked' = p

\* The second match takes the result r = [st, panic]
SecondTakes(r, entry) == SecondBecomes(r.st, r.panic, entry)

\* update(&ball) on the second match
UpdateSecond(ball) ==
    /\ panicked = NoPanic
    /\ is_some(second)
    /\ budget > 0
    /\ ball \in outcomes
    /\ SecondTakes(GameState_update(SecondSelf, ball), UpdateOp(ball))
    /\ budget' = budget - 1
    /\ UNCHANGED <<form, current_innings_stats, previous_innings, outcomes, log,
                   returned, overflow_checks>>

\* declare() on the second match
DeclareSecond ==
    /\ panicked = NoPanic
    /\ is_some(second)
    /\ SecondTakes(GameState_declare(SecondSelf), DeclareOp)
    /\ UNCHANGED <<form, current_innings_stats, previous_innings, outcomes, budget, log,
                   returned, overflow_checks>>

\* The operations of a caller holding two matches, in any interleaving
NextPair ==
    \/ \E ball \in outcomes : Update(ball)
    \/ Declare
    \/ \E ball \in outcomes : UpdateSecond(ball)
    \/ DeclareSecond

\* GameState::new(form, &team_a, &team_b)? on the sides and format held, once
Construct ==
    /\ panicked = NoPanic
    /\ returned = None
    /\ LET r == GameState_new_result(form, team_a, team_b)
       IN  /\ current_innings_stats' = r.st.current_innings_stats
           /\ previous_innings' = r.st.previous_innings
           /\ panicked' = r.panic
           /\ returned' = IF r.panic /= NoPanic THEN None
                          ELSE IF is_some(r.err) THEN r.err
                          ELSE Some(Ok)
    /\ UNCHANGED <<form, team_a, team_b, outcomes, budget, log, overflow_checks, second>>

\* The construction alone
NextConstruct == Construct

\* innings.update(&ball)? of game/stats.rs on the innings in progress, the
\* caller keeping what it returned
StatsUpdate(ball) ==
    /\ panicked = NoPanic
    /\ budget > 0
    /\ ball \in outcomes
    /\ is_some(current_innings_stats)
    /\ ~InningsStats_all_out(unwrap(current_innings_stats))
    /\ \E r \in {stats_InningsStats_update(unwrap(current_innings_stats), ball)} :
          /\ current_innings_stats' = Some(r.st)
          /\ panicked' = r.panic
          /\ returned' = IF r.panic /= NoPanic THEN None
                         ELSE IF is_some(r.err) THEN r.err
                         ELSE Some(Ok)
    /\ budget' = budget - 1
    /\ UNCHANGED <<form, team_a, team_b, previous_innings, outcomes, log,
                   overflow_checks, second>>

\* Deliveries applied to one innings of game/stats.rs
NextStats == \E ball \in outcomes : StatsUpdate(ball)

\* innings.update(&ball) of game.rs on the innings held, by a caller that
\* holds the InningsStats itself and asks nothing of it first
InningsUpdate(ball) ==
    /\ panicked = NoPanic
    /\ budget > 0
    /\ ball \in outcomes
    /\ is_some(current_innings_stats)
    /\ \E r \in {InningsStats_update(unwrap(current_innings_stats), ball)} :
          /\ current_innings_stats' = Some(r.st)
          /\ panicked' = r.panic
    /\ budget' = budget - 1
    /\ UNCHANGED <<form, team_a, team_b, previous_innings, outcomes, log, returned,
                   overflow_checks, second>>

\* Deliveries applied to one innings of game.rs
NextInnings == \E ball \in outcomes : InningsUpdate(ball)

----------------------------------------------------------------------------
(* Delivery models and match formats of the specifications *)

Dot == DefaultDelivery

Single == DeliveryOutcome(None, Running(1), <<>>)

FourHit == DeliveryOutcome(None, Four, <<>>)

WideBall == DeliveryOutcome(None, Running(0), <<Wide>>)

BowledBall == DeliveryOutcome(Some("Bowled"), Running(0), <<>>)

RunOutNonStrikerBall == DeliveryOutcome(Some("RunOutNonStriker"), Running(0), <<>>)

\* The number of deliveries submitted in a match
MaxDeliveries == 4

\* Balls per over of the short formats
ShortOver == 2

MatchOutcomes == {Dot, Single, WideBall, BowledBall}

MatchForms ==
    {Form(i, c, ShortOver, N_PLAYERS) : i \in {1, 2}, c \in {None, Some(1)}}

\* Short matches in four formats, fed dots, singles, wides and dismissals
Init ==
    \E rules \in MatchForms :
        InitWith(rules, N_PLAYERS, N_PLAYERS, MatchOutcomes, MaxDeliveries)

Spec == Init /\ [][Next]_vars

\* The number of deliveries submitted in a match of dismissals
MaxWicketBalls == 10

\* A format with fewer batters per side than the rosters hold
FewBatters == 3

WicketOutcomes == {BowledBall, RunOutNonStrikerBall}

WicketForms == {Form(1, None, ShortOver, b) : b \in {FewBatters, N_PLAYERS}}

\* One-innings matches fed dismissals of the striker and of the non-striker
InitAllOut ==
    \E rules \in WicketForms :
        InitWith(rules, N_PLAYERS, N_PLAYERS, WicketOutcomes, MaxWicketBalls)

\* The simulation loop fed such dismissals
SpecAllOut == InitAllOut /\ [][NextSim]_vars

\* The number of deliveries submitted in a match of large scores
MaxScoringBalls == 3

\* The longest format of the large-score matches, in innings per side
MaxInnings == 3

Run149 == DeliveryOutcome(None, Running(149), <<>>)

Run150 == DeliveryOutcome(None, Running(150), <<>>)

ScoringOutcomes == {Dot, Single, Run149, Run150}

ScoringForms ==
    {Form(i, c, ShortOver, N_PLAYERS) : i \in 1..MaxInnings, c \in {None, Some(1)}}

\* Matches of one to MaxInnings innings per side fed dots, singles and
\* deliveries worth 149 and 150 runs
InitFollowOn ==
    \E rules \in ScoringForms :
        InitWith(rules, N_PLAYERS, N_PLAYERS, ScoringOutcomes, MaxScoringBalls)

SpecFollowOn == InitFollowOn /\ [][Next]_vars

\* The number of deliveries submitted in a match of extras
MaxExtrasBalls == 3

Two == DeliveryOutcome(None, Running(2), <<>>)

SixHit == DeliveryOutcome(None, Six, <<>>)

NoBallBall == DeliveryOutcome(None, Running(0), <<NoBall>>)

ByeBall == DeliveryOutcome(None, Running(0), <<Bye(Running(1))>>)

LegByeBall == DeliveryOutcome(None, Running(0), <<LegBye(Running(1))>>)

TwoByes == DeliveryOutcome(None, Running(0), <<Bye(Running(2))>>)

SingleAndBye == DeliveryOutcome(None, Running(1), <<Bye(Running(1))>>)

ByeAndLegBye == DeliveryOutcome(None, Running(0), <<Bye(Running(1)), LegBye(Running(1))>>)

NoBallLegBye == DeliveryOutcome(None, Running(0), <<NoBall, LegBye(Running(1))>>)

PenaltyBall == DeliveryOutcome(None, Running(0), <<Penalty(1)>>)

RunOutSingle == DeliveryOutcome(Some("RunOutStriker"), Running(1), <<>>)

ExtrasOutcomes ==
    {Dot, Single, Two, FourHit, SixHit, NoBallBall, WideBall, ByeBall, LegByeBall,
     TwoByes, SingleAndBye, ByeAndLegBye, NoBallLegBye, PenaltyBall, RunOutSingle}

ExtrasForms == {Form(1, c, ShortOver, N_PLAYERS) : c \in {None, Some(1)}}

\* One-innings matches fed runs off the bat, byes, leg byes, no-balls, wides
\* and penalty runs
InitExtras ==
    \E rules \in ExtrasForms :
        InitWith(rules, N_PLAYERS, N_PLAYERS, ExtrasOutcomes, MaxExtrasBalls)

SpecExtras == InitExtras /\ [][Next]_vars

\* The number of deliveries fed in the capped three-batter scenario
MaxScenarioBalls == 13

\* One innings per side, an overs cap of 2, 6 balls per over, 3 batters per side
ScenarioForm == Form(1, Some(2), 6, 3)

ScenarioOutcomes == {Dot, BowledBall}

\* The simulation loop fed dot balls and dismissals in the scenario's format,
\* the caller logging what it feeds
InitScenario ==
    InitLogged(ScenarioForm, N_PLAYERS, N_PLAYERS, ScenarioOutcomes, MaxScenarioBalls,
               Some(<<>>))

SpecScenario == InitScenario /\ [][NextSim]_vars

\* The number of deliveries submitted in a logged match
MaxReplayBalls == 3

\* Short matches in four formats, the caller logging every operation
InitReplay ==
    \E rules \in MatchForms :
        InitLogged(rules, N_PLAYERS, N_PLAYERS, MatchOutcomes, MaxReplayBalls, Some(<<>>))

SpecReplay == InitReplay /\ [][Next]_vars

CaughtBall == DeliveryOutcome(Some("Caught"), Running(0), <<>>)

LbwBall == DeliveryOutcome(Some("Lbw"), Running(0), <<>>)

\* The outcomes NullModel::generate_delivery can return
NullOutcomes == {Dot, Single, FourHit, SixHit, CaughtBall, BowledBall, LbwBall}

\* The number of deliveries of a simulated match drawing on every outcome
MaxNullBalls == 3

\* The number of deliveries of a simulated match in which the model returns
\* the same outcome every time
MaxSameBalls == 510

\* The simulation loop of a test-format match between two full sides: the
\* null model returning any of its outcomes for a few deliveries, or the same
\* outcome for a long run of them
InitNull ==
    \/ InitWith(Form_test, N_PLAYERS, N_PLAYERS, NullOutcomes, MaxNullBalls)
    \/ \E ball \in NullOutcomes :
           InitWith(Form_test, N_PLAYERS, N_PLAYERS, {ball}, MaxSameBalls)

SpecNull == InitNull /\ [][NextSim]_vars

\* The largest roster of the sides a match is constructed from
MaxRoster == 12

\* Two sides with rosters of 0 to MaxRoster players and a format, before the
\* match is constructed
InitConstruct ==
    \E na \in 0..MaxRoster, nb \in 0..MaxRoster :
        /\ form = Form_test
        /\ team_a = Team(1, na)
        /\ team_b = Team(2, nb)
        /\ current_innings_stats = None
        /\ previous_innings = <<>>
        /\ panicked = NoPanic
        /\ outcomes = {}
        /\ budget = 0
        /\ log = None
        /\ returned = None
        /\ overflow_checks \in BOOLEAN
        /\ second = None

SpecConstruct == InitConstruct /\ [][NextConstruct]_vars

\* The number of deliveries without a dismissal in a match played to its end
MaxOtherBalls == 1

LiveOutcomes == {Dot, Single, BowledBall}

\* The simulation loop of a test-format match between two full sides, the
\* caller logging what it feeds
InitLive ==
    InitLogged(Form_test, N_PLAYERS, N_PLAYERS, LiveOutcomes, MaxOtherBalls, Some(<<>>))

\* The steps of Dismissed, told by the entry they add to the log of the caller;
\* such a step is possible exactly while the loop runs on
DismissalLogged ==
    \E ball \in outcomes :
        /\ is_some(ball.wicket)
        /\ panicked = NoPanic
        /\ ~complete(Self)
        /\ log' = Logged(UpdateOp(ball))

\* Dismissals keep occurring: while the loop runs on, a dismissal is
\* eventually delivered
SpecLive == InitLive /\ [][NextLive]_vars /\ WF_log(DismissalLogged)

\* The number of deliveries submitted to two matches together
MaxPairBalls == 2

\* Two matches built from the same format and the same two sides, the caller
\* logging the operations it submits to each
InitPair ==
    \E rules \in MatchForms :
        LET g == GameState_new(rules, Team(1, N_PLAYERS), Team(2, N_PLAYERS))
        IN  /\ form = g.st.form
            /\ team_a = g.st.team_a
            /\ team_b = g.st.team_b
            /\ current_innings_stats = g.st.current_innings_stats
            /\ previous_innings = g.st.previous_innings
            /\ panicked = g.panic
            /\ outcomes = MatchOutcomes
            /\ budget = MaxPairBalls
            /\ log = Some(<<>>)
            /\ returned = None
            /\ overflow_checks \in BOOLEAN
            /\ second = Some([form |-> g.st.form,
                              current_innings_stats |-> g.st.current_innings_stats,
                              previous_innings |-> g.st.previous_innings,
                              log |-> <<>>])

SpecPair == InitPair /\ [][NextPair]_vars

NoBallFour == DeliveryOutcome(None, Four, <<NoBall>>)

WideStumped == DeliveryOutcome(Some("Stumped"), Running(0), <<Wide>>)

RunOutNonStrikerSingle == DeliveryOutcome(Some("RunOutNonStriker"), Running(1), <<>>)

\* The number of deliveries submitted in a match of dismissals and extras
MaxEventBalls == 4

EventOutcomes ==
    {Dot, Single, WideBall, NoBallFour, ByeBall, PenaltyBall, BowledBall, WideStumped,
     RunOutSingle, RunOutNonStrikerBall, RunOutNonStrikerSingle}

\* The simulation loop of an uncapped one-innings match with short overs, fed
\* runs, extras and dismissals of every kind of effect
InitEvents ==
    InitWith(Form(1, None, ShortOver, N_PLAYERS), N_PLAYERS, N_PLAYERS,
             EventOutcomes, MaxEventBalls)

SpecEvents == InitEvents /\ [][NextSim]_vars

\* All run: 255 runs off the bat, the largest value of Running(u8), off a no-ball
AllRunNoBall == DeliveryOutcome(None, Running(U8 - 1), <<NoBall>>)

\* The number of deliveries submitted in a match of runs and extras of every kind
MaxChargeBalls == 3

ChargeOutcomes ==
    {Dot, Single, FourHit, WideBall, NoBallFour, ByeBall, LegByeBall, NoBallLegBye,
     PenaltyBall, BowledBall, AllRunNoBall}

\* The simulation loop of an uncapped one-innings match with short overs, fed
\* runs off the bat and extras of every kind
InitCharge ==
    InitWith(Form(1, None, ShortOver, N_PLAYERS), N_PLAYERS, N_PLAYERS,
             ChargeOutcomes, MaxChargeBalls)

SpecCharge == InitCharge /\ [][NextSim]_vars

\* The number of deliveries submitted in a match of maiden overs
MaxMaidenBalls == 4

MaidenOutcomes ==
    {Dot, Single, WideBall, ByeBall, LegByeBall, PenaltyBall}

\* A one-innings match with short overs, the caller declaring at will and
\* keeping the log of its calls
InitMaiden ==
    InitLogged(Form(1, None, ShortOver, N_PLAYERS), N_PLAYERS, N_PLAYERS,
               MaidenOutcomes, MaxMaidenBalls, Some(<<>>))

SpecMaiden == InitMaiden /\ [][Next]_vars

\* The number of deliveries submitted in a match of dismissals by every route
MaxCreditBalls == 4

CreditOutcomes ==
    {Dot, Single, BowledBall, WideStumped, RunOutSingle, RunOutNonStrikerBall}

\* A one-innings match with short overs, the caller declaring at will
InitCredit ==
    InitWith(Form(1, None, ShortOver, N_PLAYERS), N_PLAYERS, N_PLAYERS,
             CreditOutcomes, MaxCreditBalls)

SpecCredit == InitCredit /\ [][Next]_vars

\* A bye and a leg bye that reach the boundary
ByeFour == DeliveryOutcome(None, Running(0), <<Bye(Four)>>)

LegByeFour == DeliveryOutcome(None, Running(0), <<LegBye(Four)>>)

\* The number of deliveries submitted in a match with byes to the boundary
MaxBoundaryBalls == 4

BoundaryOutcomes == {Dot, Single, ByeBall, ByeFour, LegByeFour}

\* The simulation loop of an uncapped one-innings match with short overs, fed
\* byes that are run and byes that reach the boundary
InitBoundary ==
    InitWith(Form(1, None, ShortOver, N_PLAYERS), N_PLAYERS, N_PLAYERS,
             BoundaryOutcomes, MaxBoundaryBalls)

SpecBoundary == InitBoundary /\ [][NextSim]_vars

\* The number of deliveries applied to an innings of game/stats.rs
MaxStatsBalls == 3

\* Deliveries whose dismissal names the batter by id: the openers of the
\* batting side, its third and fifth batters, and a player of the other side
StatsOutcomes ==
    {Dot, Single, WideBall}
      \cup {DeliveryOutcome(Some(WicketOf(p, "Bowled")), r, ex) :
               p \in {Team(1, N_PLAYERS).players[1], Team(1, N_PLAYERS).players[2],
                      Team(1, N_PLAYERS).players[3], Team(1, N_PLAYERS).players[5],
                      Team(2, N_PLAYERS).players[1]},
               r \in {Running(0), Running(1)},
               ex \in {<<>>, <<Wide>>}}

\* One innings of game/stats.rs with short overs, side 1 batting
InitStats ==
    /\ form = Form(1, None, ShortOver, N_PLAYERS)
    /\ team_a = Team(1, N_PLAYERS)
    /\ team_b = Team(2, N_PLAYERS)
    /\ current_innings_stats
         = stats_InningsStats_new(Team(1, N_PLAYERS), Team(2, N_PLAYERS), ShortOver).st
    /\ previous_innings = <<>>
    /\ panicked = NoPanic
    /\ outcomes = StatsOutcomes
    /\ budget = MaxStatsBalls
    /\ log = None
    /\ returned = None
    /\ overflow_checks \in BOOLEAN
    /\ second = None

SpecStats == InitStats /\ [][NextStats]_vars

\* The number of deliveries applied to one innings between two full sides:
\* the ten dismissals of an innings and two deliveries more
MaxSpentBalls == 12

\* One innings of game.rs with short overs, fed dismissals of the striker and
\* of the non-striker until it is all out, and after that
InitSpent ==
    InitWith(Form(1, None, ShortOver, N_PLAYERS), N_PLAYERS, N_PLAYERS,
             WicketOutcomes, MaxSpentBalls)

SpecSpent == InitSpent /\ [][NextInnings]_vars

----------------------------------------------------------------------------
(* Vocabulary of the properties *)

\* The number of archived innings and the number of scheduled innings
Archived == Len(previous_innings)

Scheduled == 2 * form.innings

\* The innings in progress (only where the match is not complete)
Current == unwrap(current_innings_stats)

\* The last archived innings
LastArchived == previous_innings[Len(previous_innings)]

\* The runs `team` made in the first k innings of the list prev
ScoreIn(prev, k, team) ==
    SumSeq([i \in 1..k |->
               IF prev[i].batting_team.id = team.id
               THEN InningsStats_runs(prev[i]) ELSE 0])

\* The side batting the innings that followed the i-th archived innings
BattedAfter(i) ==
    IF i < Len(previous_innings)
    THEN previous_innings[i + 1].batting_team
    ELSE Current.batting_team

\* Every innings that was started after another was batted by the side that
\* bowled the one before
SidesAlternate ==
    \A i \in DOMAIN previous_innings :
        (i < Len(previous_innings) \/ is_some(current_innings_stats))
           => BattedAfter(i) = previous_innings[i].bowling_team

\* An innings as InningsStats::new leaves it: nothing bowled, no runs, the first
\* two of the roster at the crease with the first on strike, one bowler
Fresh(inn) ==
    /\ inn.overs = 0
    /\ inn.balls = 0
    /\ inn.balls_per_over = form.balls_per_over
    /\ InningsStats_runs(inn) = 0
    /\ InningsStats_wickets(inn) = 0
    /\ ~InningsStats_all_out(inn)
    /\ Len(inn.batting_stats.batters) = 2
    /\ striker(inn.batting_stats) = Some(inn.batting_team.players[1])
    /\ non_striker(inn.batting_stats) = Some(inn.batting_team.players[2])
    /\ Len(inn.bowling_stats.bowler_stats) = 1
    /\ inn.bowling_stats.bowler_stats[1].stats = BowlerInningsStats_default
    /\ current_bowler(inn.bowling_stats) \in
          {inn.bowling_team.players[i] : i \in DOMAIN inn.bowling_team.players}
    /\ {inn.batting_team, inn.bowling_team} = {team_a, team_b}

\* An innings closed by the overs cap of the format
CapReached(inn) ==
    is_some(form.overs_per_innings) /\ inn.overs >= unwrap(form.overs_per_innings)

----------------------------------------------------------------------------
(* C1 *)

\* C1: in the final scheduled innings (archived + 1 = 2 x innings per side) every
\* delivery starts with the batting side not ahead; the match is complete after
\* the delivery if the batting side's cumulative score is then strictly greater
\* than the bowling side's, wherever in the over it falls; and if the scores are
\* then level or the batting side is behind, the match goes on with the same
\* innings unless that delivery closed it as all out or by the overs cap.
C1_FinalInningsOvertake ==
    [][\A ball \in outcomes :
          (Update(ball) /\ ~complete(Self) /\ Archived + 1 = Scheduled)
          => LET bat == Current.batting_team
                 bowl == Current.bowling_team
             IN  /\ panicked' = NoPanic
                 /\ team_score(Self, bat) <= team_score(Self, bowl)
                 /\ team_score(Self', bat) > team_score(Self', bowl)
                      => /\ complete(Self')
                         /\ previous_innings' =
                              Append(previous_innings, InningsStats_update(Current, ball).st)
                 /\ team_score(Self', bat) <= team_score(Self', bowl)
                      => \/ /\ ~complete(Self')
                            /\ previous_innings' = previous_innings
                         \/ /\ complete(Self')
                            /\ \/ InningsStats_all_out(LastArchived')
                               \/ CapReached(LastArchived')]_vars

\* C1 witness: the match is complete with all scheduled innings archived, the
\* last one closed in the middle of an over, not all out and short of the overs
\* cap, with its batting side strictly ahead.
C1_Witness ==
    /\ panicked = NoPanic
    /\ is_none(current_innings_stats)
    /\ Archived = Scheduled
    /\ LastArchived.balls > 0
    /\ ~InningsStats_all_out(LastArchived)
    /\ ~CapReached(LastArchived)
    /\ team_score(Self, LastArchived.batting_team)
         > team_score(Self, LastArchived.bowling_team)

----------------------------------------------------------------------------
(* C2 *)

----------------------------------------------------------------------------
(* C3 *)

\* C3: an innings is closed as all out on exactly the delivery at which the
\* wickets-fallen count reaches batsmen_per_side - 1 (so an open innings has
\* fewer wickets and an innings archived as all out has exactly that many), and
\* the assertion wickets + 1 == batsmen_per_side in update never fails.
C3_AllOutAtBattersPerSide ==
    /\ panicked /= PanicAssertAllOut
    /\ (panicked = NoPanic /\ ~complete(Self))
          => InningsStats_wickets(Current) < form.batsmen_per_side - 1
    /\ \A i \in DOMAIN previous_innings :
          InningsStats_all_out(previous_innings[i])
             => InningsStats_wickets(previous_innings[i]) = form.batsmen_per_side - 1

----------------------------------------------------------------------------
(* C4 *)

\* The innings a delivery was applied to, as it stands after the delivery:
\* the new last archived innings if the delivery closed it, else the current one
AfterDelivery(prev, cur) ==
    IF Len(prev) > Len(previous_innings) THEN prev[Len(previous_innings) + 1] ELSE unwrap(cur)

\* C4: with an overs cap c, an open innings has fewer than c completed overs
\* and the delivery that completes its c-th over closes it; with no cap, a
\* delivery that completes an over closes the innings only if it is then all
\* out or the last innings has been won.
C4_OversCap ==
    [][\A ball \in outcomes :
          (Update(ball) /\ ~complete(Self))
          => LET after == AfterDelivery(previous_innings', current_innings_stats')
                 closed == Len(previous_innings') = Archived + 1
                 over_done == after.overs = Current.overs + 1
             IN  /\ panicked' = NoPanic
                 /\ over_done <=> (legal(ball) /\ Current.balls + 1 = form.balls_per_over)
                 /\ is_some(form.overs_per_innings)
                      => /\ Current.overs < unwrap(form.overs_per_innings)
                         /\ (over_done /\ after.overs = unwrap(form.overs_per_innings))
                               => closed
                         /\ (~closed) => after.overs < unwrap(form.overs_per_innings)
                 /\ (is_none(form.overs_per_innings) /\ over_done /\ closed)
                      => \/ InningsStats_all_out(after)
                         \/ /\ Archived + 1 = Scheduled
                            /\ team_score(Self', after.batting_team)
                                 > team_score(Self', after.bowling_team)]_vars

\* C4 witness: an innings was archived by the cap alone: it has exactly the
\* cap's overs, is not all out, and was not the last innings.
C4_Witness ==
    /\ panicked = NoPanic
    /\ is_some(form.overs_per_innings)
    /\ Archived >= 1
    /\ Archived < Scheduled
    /\ previous_innings[1].overs = unwrap(form.overs_per_innings)
    /\ previous_innings[1].balls = 0
    /\ ~InningsStats_all_out(previous_innings[1])

----------------------------------------------------------------------------
(* C5 *)

\* C5: whenever an innings closes leaving an even number of archived innings
\* that is less than the scheduled number, a next innings is started, and the
\* side that just batted bats it if and only if its cumulative score plus 150
\* is at most the other side's; otherwise the sides swap roles.
C5_FollowOnAt150 ==
    [][(/\ Len(previous_innings') = Archived + 1
        /\ panicked' = NoPanic
        /\ Len(previous_innings') % 2 = 0
        /\ Len(previous_innings') < Scheduled)
       => LET last == previous_innings'[Len(previous_innings')]
              b == team_score(Self', last.batting_team)
              w == team_score(Self', last.bowling_team)
              next == unwrap(current_innings_stats')
          IN  /\ is_some(current_innings_stats')
              /\ (b + 150 <= w) <=> (next.batting_team = last.batting_team)
              /\ (b + 150 <= w) <=> (next.bowling_team = last.bowling_team)
              /\ (b + 150 > w) <=> (next.batting_team = last.bowling_team)
              /\ (b + 150 > w) <=> (next.bowling_team = last.batting_team)]_vars

\* C5 witness: after two innings the side that batted second trails by exactly
\* 150 and is batting the third innings.
C5_Witness ==
    /\ panicked = NoPanic
    /\ Archived = 2
    /\ is_some(current_innings_stats)
    /\ previous_innings[1].batting_team = team_a
    /\ previous_innings[2].batting_team = team_b
    /\ team_score(Self, team_b) + 150 = team_score(Self, team_a)
    /\ Current.batting_team = team_b

----------------------------------------------------------------------------
(* C6 *)

\* C6 as stated: in a format other than two innings per side the side that
\* just bowled always bats the next innings.
C6_NoFollowOnOutsideDefault == (form.innings /= 2) => SidesAlternate

\* C6 amended: in a format with one innings per side the side that just bowled
\* always bats the next innings.
C6_NoFollowOnSingleInnings == (form.innings = 1) => SidesAlternate

\* C6 witness: in a one-innings format the second innings is batted by the side
\* that bowled the first, which finished 150 or more ahead of it.
C6_Witness ==
    /\ panicked = NoPanic
    /\ form.innings = 1
    /\ Archived = 1
    /\ is_some(current_innings_stats)
    /\ Current.batting_team = team_b
    /\ team_score(Self, team_a) >= team_score(Self, team_b) + 150

----------------------------------------------------------------------------
(* C7 *)

\* C7: once the second-to-last scheduled innings is archived: if the side that
\* batted it then had strictly fewer cumulative runs than the other side, the
\* match is complete and no further innings was started; if it was level or
\* ahead, the final innings was started with the other side batting.
C7_LastInningsEarlyCall ==
    (Archived >= Scheduled - 1)
    => LET k == Scheduled - 1
           last == previous_innings[k]
           b == ScoreIn(previous_innings, k, last.batting_team)
           w == ScoreIn(previous_innings, k, last.bowling_team)
       IN  /\ (b < w) => (Archived = k /\ is_none(current_innings_stats))
           /\ (b >= w /\ Archived = k)
                 => /\ is_some(current_innings_stats)
                    /\ Current.batting_team = last.bowling_team
                    /\ Current.bowling_team = last.batting_team
           /\ (b >= w /\ Archived > k)
                 => previous_innings[k + 1].batting_team = last.bowling_team

\* C7 witness: the match was called with one scheduled innings unplayed: the
\* side that batted the second-to-last innings is behind.
C7_Witness ==
    /\ Archived = Scheduled - 1
    /\ is_none(current_innings_stats)
    /\ team_score(Self, LastArchived.batting_team)
         < team_score(Self, LastArchived.bowling_team)

----------------------------------------------------------------------------
(* C8 *)

\* C8: the number of archived innings never exceeds 2 x innings per side, and
\* when it equals 2 x innings per side there is no current innings.
C8_ArchivedBounded ==
    /\ Archived <= Scheduled
    /\ (Archived = Scheduled) => is_none(current_innings_stats)

\* C8 witness: all four innings of a two-innings-per-side match are archived.
C8_Witness ==
    /\ form.innings = 2
    /\ Archived = 4
    /\ is_none(current_innings_stats)

----------------------------------------------------------------------------
(* C9 *)

\* What follows the closing of an innings, given the archived innings prev with
\* the closed innings last and the current innings cur that results
NextInningsDecision(prev, cur) ==
    LET k == Len(prev)
        last == prev[k]
        b == ScoreIn(prev, k, last.batting_team)
        w == ScoreIn(prev, k, last.bowling_team)
    IN  IF k >= Scheduled THEN is_none(cur)
        ELSE IF k + 1 = Scheduled /\ b < w THEN is_none(cur)
        ELSE /\ is_some(cur)
             /\ Fresh(unwrap(cur))
             /\ unwrap(cur).batting_team =
                  (IF k % 2 = 0 /\ b + 150 <= w
                   THEN last.batting_team ELSE last.bowling_team)
             /\ unwrap(cur).bowling_team =
                  (IF k % 2 = 0 /\ b + 150 <= w
                   THEN last.bowling_team ELSE last.batting_team)

\* C9: declare on a match that is not complete archives the current innings as
\* it stands, whatever its wickets and overs, and what follows is decided as
\* for every other step that archives an innings: no innings if all scheduled
\* innings are archived or if one is left and the side that just batted is
\* behind; else a fresh innings, batted by the same side if the archived count
\* is even and it trails by 150 or more, and by the other side otherwise.
C9_DeclareClosesInnings ==
    [][/\ (Declare /\ ~complete(Self))
            => /\ panicked' = NoPanic
               /\ previous_innings' = Append(previous_innings, Current)
               /\ NextInningsDecision(previous_innings', current_innings_stats')
       /\ (Len(previous_innings') = Archived + 1 /\ panicked' = NoPanic)
            => NextInningsDecision(previous_innings', current_innings_stats')]_vars

\* C9 witness: the first innings of a match of two or more innings per side was
\* declared in the middle of an over with runs on the board, and the other
\* side is batting.
C9_Witness ==
    /\ panicked = NoPanic
    /\ form.innings >= 2
    /\ Archived = 1
    /\ previous_innings[1].balls > 0
    /\ InningsStats_runs(previous_innings[1]) > 0
    /\ ~InningsStats_all_out(previous_innings[1])
    /\ is_some(current_innings_stats)
    /\ Current.batting_team = team_b

----------------------------------------------------------------------------
(* C10 *)

\* C10: declare on a complete match fails with the no-current-innings panic
\* and leaves the archived innings and both team scores as they were; declare
\* on a match that is not complete succeeds, and ends with the innings
\* archived and either no current innings or a fresh one between the two sides.
C10_DeclareAtomic ==
    [][Declare
       => IF complete(Self)
          THEN /\ panicked' = PanicNoCurrentInnings
               /\ previous_innings' = previous_innings
               /\ current_innings_stats' = current_innings_stats
               /\ team_score(Self', team_a) = team_score(Self, team_a)
               /\ team_score(Self', team_b) = team_score(Self, team_b)
          ELSE /\ panicked' = NoPanic
               /\ previous_innings' = Append(previous_innings, Current)
               /\ team_score(Self', team_a) = team_score(Self, team_a)
               /\ team_score(Self', team_b) = team_score(Self, team_b)
               /\ \/ is_none(current_innings_stats')
                  \/ /\ is_some(current_innings_stats')
                     /\ Fresh(unwrap(current_innings_stats'))
                     /\ unwrap(current_innings_stats').batting_team
                          /= unwrap(current_innings_stats').bowling_team]_vars

\* C10 witness: declare was called on a complete match with runs on the board.
C10_Witness ==
    /\ panicked = PanicNoCurrentInnings
    /\ Archived >= 1
    /\ team_score(Self, team_a) + team_score(Self, team_b) > 0

----------------------------------------------------------------------------
(* C11 *)

\* The runs a delivery is worth: the runs off the bat plus the runs of every extra
DeliveryRuns(ball) ==
    Runs_runs(ball.runs) + SumSeq([i \in DOMAIN ball.extras |-> Extra_runs(ball.extras[i])])

\* C11: team_score of a side is the sum of the team runs of the archived
\* innings it batted plus the runs of the current innings if it is batting it;
\* every delivery raises the batting side's team_score by its runs off the bat
\* plus the runs of all its extras and leaves the bowling side's unchanged,
\* whether or not the delivery closes the innings; a declaration changes
\* neither side's team_score.
C11_TeamScoreFrame ==
    /\ [](\A t \in {team_a, team_b} :
             team_score(Self, t) =
                ScoreIn(previous_innings, Archived, t)
                + (IF is_some(current_innings_stats) /\ Current.batting_team = t
                   THEN InningsStats_runs(Current) ELSE 0))
    /\ [][/\ \A ball \in outcomes :
                (Update(ball) /\ ~complete(Self))
                => /\ panicked' = NoPanic
                   /\ team_score(Self', Current.batting_team)
                        = team_score(Self, Current.batting_team) + DeliveryRuns(ball)
                   /\ team_score(Self', Current.bowling_team)
                        = team_score(Self, Current.bowling_team)
          /\ (Declare /\ ~complete(Self))
                => /\ Len(previous_innings') = Archived + 1
                   /\ team_score(Self', team_a) = team_score(Self, team_a)
                   /\ team_score(Self', team_b) = team_score(Self, team_b)]_vars

\* C11 witness: the first innings was closed by a delivery (the overs cap) with
\* runs off the bat and extras in it, and the second innings has extras.
C11_Witness ==
    /\ panicked = NoPanic
    /\ Archived = 1
    /\ is_some(current_innings_stats)
    /\ CapReached(previous_innings[1])
    /\ previous_innings[1].batting_stats.extras > 0
    /\ team_score(Self, team_a) > previous_innings[1].batting_stats.extras
    /\ Current.batting_stats.extras > 0
    /\ team_score(Self, team_b) = Current.batting_stats.extras

----------------------------------------------------------------------------
(* C12 *)

\* C12: a delivery that completes an over leaves the innings with a current
\* bowler who is not the bowler of the over just finished (and who is the one
\* the rotation remembers as last), whether or not the innings closes on it.
C12_BowlerChangesEachOver ==
    [][\A ball \in outcomes :
          (Update(ball) /\ ~complete(Self) /\ panicked' = NoPanic)
          => LET after == AfterDelivery(previous_innings', current_innings_stats')
             IN  IF after.overs = Current.overs + 1
                 THEN /\ current_bowler(after.bowling_stats)
                           /= current_bowler(Current.bowling_stats)
                      /\ current_bowler(after.bowling_stats) = after.bowling_stats.bowlers.last
                 ELSE current_bowler(after.bowling_stats)
                           = current_bowler(Current.bowling_stats)]_vars

\* C12 witness: two overs of the innings are complete, each bowled by a
\* different bowler, and the bowler of the first is bowling the third.
C12_Witness ==
    /\ panicked = NoPanic
    /\ is_some(current_innings_stats)
    /\ Current.overs = 2
    /\ Len(Current.bowling_stats.bowler_stats) = 2
    /\ Current.bowling_stats.bowler_stats[1].stats.balls = Current.balls_per_over
    /\ Current.bowling_stats.bowler_stats[2].stats.balls = Current.balls_per_over
    /\ Current.bowling_stats.bowler_stats[1].player
          /= Current.bowling_stats.bowler_stats[2].player
    /\ current_bowler(Current.bowling_stats) = Current.bowling_stats.bowler_stats[1].player

----------------------------------------------------------------------------
(* C13 *)

\* The legal deliveries an innings accounts for: completed overs x balls per
\* over plus the balls of the over in progress
BallsAccounted(inn) == inn.overs * inn.balls_per_over + inn.balls

\* C13: every innings starts with no over and no ball; a legal delivery raises
\* completed overs x balls_per_over + balls in the over by exactly one and any
\* other delivery leaves it unchanged, so the sum equals the number of legal
\* deliveries bowled in the innings; and the ball count of the over in progress
\* is always less than balls_per_over, in the open and in every archived innings.
C13_OversAndBallsCountLegalDeliveries ==
    /\ [](/\ is_some(current_innings_stats)
             => /\ Current.balls < Current.balls_per_over
                /\ Current.balls >= 0
          /\ \A i \in DOMAIN previous_innings :
                previous_innings[i].balls < previous_innings[i].balls_per_over)
    /\ [][/\ \A ball \in outcomes :
                (Update(ball) /\ ~complete(Self) /\ panicked' = NoPanic)
                => BallsAccounted(AfterDelivery(previous_innings', current_innings_stats'))
                     = BallsAccounted(Current) + (IF legal(ball) THEN 1 ELSE 0)
          /\ (Len(previous_innings') = Archived + 1 /\ is_some(current_innings_stats'))
                => BallsAccounted(unwrap(current_innings_stats')) = 0]_vars
    /\ (is_some(current_innings_stats) /\ BallsAccounted(Current) = 0)

\* C13 witness: an innings in which a wide was bowled stands at one completed
\* over and one ball: three legal deliveries of its four.
C13_Witness ==
    /\ panicked = NoPanic
    /\ is_some(current_innings_stats)
    /\ Current.overs = 1
    /\ Current.balls = 1
    /\ Current.batting_stats.extras = 1
    /\ Current.bowling_stats.bowler_stats[1].stats.wides = 1

----------------------------------------------------------------------------
(* C14 *)

\* The sum of the runs of all batter records of an innings
BatterRuns(inn) ==
    SumSeq([i \in DOMAIN inn.batting_stats.batters |->
               inn.batting_stats.batters[i].stats.runs])

\* C14: in every innings, open or archived, the team-runs query equals the sum
\* of all batter records' runs plus the team extras; and a delivery adds its
\* runs off the bat (running runs, 4 for a four, 6 for a six) to the record of
\* the batter who was on strike, adds nothing to any other batter record,
\* opens new records at zero, and adds the runs of its extras, and nothing
\* else, to the extras total.
C14_TeamRunsAreBatterRunsPlusExtras ==
    /\ [](/\ is_some(current_innings_stats)
             => InningsStats_runs(Current) = BatterRuns(Current) + Current.batting_stats.extras
          /\ \A i \in DOMAIN previous_innings :
                InningsStats_runs(previous_innings[i])
                  = BatterRuns(previous_innings[i]) + previous_innings[i].batting_stats.extras)
    /\ [][\A ball \in outcomes :
             (Update(ball) /\ ~complete(Self) /\ panicked' = NoPanic)
             => LET before == Current.batting_stats
                    after == AfterDelivery(previous_innings', current_innings_stats').batting_stats
                    on_strike == striker_idx(before) + 1
                IN  /\ Len(after.batters) >= Len(before.batters)
                    /\ \A i \in DOMAIN after.batters :
                          after.batters[i].stats.runs =
                             (IF i \in DOMAIN before.batters
                              THEN before.batters[i].stats.runs ELSE 0)
                             + (IF i = on_strike THEN Runs_runs(ball.runs) ELSE 0)
                    /\ after.extras = before.extras + (DeliveryRuns(ball) - Runs_runs(ball.runs))]_vars

\* C14 witness: both opening batters have runs off the bat and the innings
\* has extras.
C14_Witness ==
    /\ panicked = NoPanic
    /\ is_some(current_innings_stats)
    /\ Current.batting_stats.batters[1].stats.runs > 0
    /\ Current.batting_stats.batters[2].stats.runs > 0
    /\ Current.batting_stats.extras > 0
    /\ InningsStats_runs(Current) = BatterRuns(Current) + Current.batting_stats.extras

----------------------------------------------------------------------------
(* C15 *)

\* C15: in every innings, open or archived, the wickets-fallen count is at
\* most batsmen_per_side - 1, and the innings is all out exactly when the
\* count is batsmen_per_side - 1.
C15_WicketsBoundedByBattersPerSide ==
    LET bounded(inn) ==
            /\ InningsStats_wickets(inn) <= form.batsmen_per_side - 1
            /\ InningsStats_all_out(inn)
                  <=> (InningsStats_wickets(inn) = form.batsmen_per_side - 1)
    IN  /\ is_some(current_innings_stats) => bounded(Current)
        /\ \A i \in DOMAIN previous_innings : bounded(previous_innings[i])

----------------------------------------------------------------------------
(* C16 *)

\* The number of odd-valued items among the running runs off the bat and the
\* sub-runs of each bye and each leg bye of the delivery
OddItems(ball) ==
    (IF ball.runs.tag = "Running" /\ ball.runs.n % 2 = 1 THEN 1 ELSE 0)
    + Cardinality({i \in DOMAIN ball.extras :
                      /\ ball.extras[i].kind \in {"Bye", "LegBye"}
                      /\ Runs_runs(ball.extras[i].runs) % 2 = 1})

\* C16: on a delivery that does not complete an over, the crease slot on
\* strike changes if and only if the number of odd-valued items among the
\* running runs off the bat and the bye and leg-bye sub-runs is odd; where no
\* wicket falls, the striker and the non-striker then exchange roles, and keep
\* them otherwise.  Fours, sixes, even running runs, no-balls, wides and
\* penalty runs count for nothing in it.
C16_StrikeSwapParity ==
    [][\A ball \in outcomes :
          (Update(ball) /\ ~complete(Self) /\ panicked' = NoPanic)
          => LET before == Current.batting_stats
                 closed == AfterDelivery(previous_innings', current_innings_stats')
                 after == closed.batting_stats
                 odd == OddItems(ball) % 2 = 1
             IN  (closed.overs = Current.overs)
                 => /\ (after.striker_a /= before.striker_a) <=> odd
                    /\ after.batter_a >= before.batter_a
                    /\ (is_none(ball.wicket) /\ odd)
                          => /\ striker(after) = non_striker(before)
                             /\ non_striker(after) = striker(before)
                    /\ (is_none(ball.wicket) /\ ~odd)
                          => /\ striker(after) = striker(before)
                             /\ non_striker(after) = non_striker(before)]_vars

\* C16 witness: the first ball of the innings was a single with a one-run bye
\* (two odd items) and the opening striker is still on strike.
C16_Witness ==
    /\ panicked = NoPanic
    /\ is_some(current_innings_stats)
    /\ Current.overs = 0
    /\ Current.balls = 1
    /\ Current.batting_stats.batters[1].stats.runs = 1
    /\ Current.batting_stats.batters[1].stats.balls = 1
    /\ Current.batting_stats.extras = 1
    /\ InningsStats_wickets(Current) = 0
    /\ striker(Current.batting_stats) = Some(Current.batting_team.players[1])

----------------------------------------------------------------------------
(* C17 *)

\* The scenario's feed: 11 legal dot balls, then a dismissal ball
ScenarioLog == [i \in 1..12 |-> IF i <= 11 THEN UpdateOp(Dot) ELSE UpdateOp(BowledBall)]

\* The scenario's feed has been submitted (and possibly more after it)
ScenarioFed ==
    /\ is_some(log)
    /\ Len(unwrap(log)) >= Len(ScenarioLog)
    /\ SubSeq(unwrap(log), 1, Len(ScenarioLog)) = ScenarioLog

\* C17 as stated: once the scenario's 11 dot balls and its dismissal ball are
\* fed, whatever dot balls follow, the first innings has ended all out with
\* exactly 2 wickets and 0 team runs.
C17_ScenarioAllOut ==
    ScenarioFed
    => /\ panicked = NoPanic
       /\ Archived >= 1
       /\ InningsStats_all_out(previous_innings[1])
       /\ InningsStats_wickets(previous_innings[1]) = 2
       /\ InningsStats_runs(previous_innings[1]) = 0

\* C17 amended: once the scenario's 11 dot balls and its dismissal ball are
\* fed, the first innings has been closed by the overs cap on the dismissal
\* ball, the 12th legal ball: it is archived with 2 completed overs, exactly 1
\* wicket and 0 team runs and is not all out; the second innings is open,
\* batted by the other side, and the balls fed after the dismissal are in it.
C17_ScenarioClosesByCap ==
    ScenarioFed
    => /\ panicked = NoPanic
       /\ Archived = 1
       /\ ~InningsStats_all_out(previous_innings[1])
       /\ InningsStats_wickets(previous_innings[1]) = 1
       /\ InningsStats_runs(previous_innings[1]) = 0
       /\ previous_innings[1].overs = 2
       /\ previous_innings[1].balls = 0
       /\ CapReached(previous_innings[1])
       /\ is_some(current_innings_stats)
       /\ Current.batting_team = team_b
       /\ BallsAccounted(Current) = Len(unwrap(log)) - Len(ScenarioLog)
       /\ (Len(unwrap(log)) = Len(ScenarioLog)) => Fresh(Current)

\* C17 witness: the scenario's 12 balls were fed and a dot ball after them,
\* which is the first ball of the second innings.
C17_Witness ==
    /\ ScenarioFed
    /\ Len(unwrap(log)) = Len(ScenarioLog) + 1
    /\ unwrap(log)[Len(ScenarioLog) + 1] = UpdateOp(Dot)
    /\ Archived = 1
    /\ InningsStats_wickets(previous_innings[1]) = 1
    /\ Current.balls = 1

----------------------------------------------------------------------------
(* C18 *)

\* One logged operation applied to the match g: [st, panic]
Apply(g, entry) ==
    IF entry.op = "update" THEN GameState_update(g, entry.ball) ELSE GameState_declare(g)

\* The operations `ops` applied in order to the match r = [st, panic]; a panic
\* ends the run
RECURSIVE Replay(_, _)
Replay(r, ops) ==
    IF ops = <<>> \/ r.panic /= NoPanic
    THEN r
    ELSE Replay(Apply(r.st, ops[1]), Tail(ops))

----------------------------------------------------------------------------
(* C19 *)

\* C19: whenever a match is constructed from two sides of which one has a
\* roster of fewer than 2 players (no two opening batters, and no bowler
\* either), the construction returns the missing-data error and does not panic.
C19_ConstructionReturnsMissingData ==
    ((returned /= None \/ panicked /= NoPanic)
       /\ (Len(team_a.players) < 2 \/ Len(team_b.players) < 2))
    => /\ panicked = NoPanic
       /\ returned = Some(ErrMissingData)


\* C20: in a test-format match between two 11-player sides fed outcomes of
\* the null model, every update made while the match is not complete succeeds:
\* the program never panics.
C20_NullModelUpdatesSucceed ==
    (form = Form_test /\ outcomes \subseteq NullOutcomes) => panicked = NoPanic


----------------------------------------------------------------------------
(* C21 *)

----------------------------------------------------------------------------
(* C22 *)

\* The legal deliveries an innings may hold under the overs cap of the format
CapBalls == unwrap(form.overs_per_innings) * form.balls_per_over

\* The legal deliveries of the match so far, over all its innings
LegalDeliveries ==
    SumSeq([i \in DOMAIN previous_innings |-> BallsAccounted(previous_innings[i])])
    + (IF is_some(current_innings_stats) THEN BallsAccounted(Current) ELSE 0)

\* C22: under an overs cap c, an innings in progress holds fewer than
\* c x balls_per_over legal deliveries and an archived one at most that many,
\* and a match that has had 2 x innings x c x balls_per_over legal deliveries
\* is complete, whatever the runs and wickets.
C22_CapBoundsInningsAndMatch ==
    (panicked = NoPanic /\ is_some(form.overs_per_innings))
    => /\ ~complete(Self) => BallsAccounted(Current) < CapBalls
       /\ \A i \in DOMAIN previous_innings :
             BallsAccounted(previous_innings[i]) <= CapBalls
       /\ LegalDeliveries <= Scheduled * CapBalls
       /\ LegalDeliveries = Scheduled * CapBalls => complete(Self)

\* A capped match completed by its last allowed legal delivery, every innings
\* closed by the cap
C22_Witness ==
    /\ panicked = NoPanic
    /\ is_some(form.overs_per_innings)
    /\ complete(Self)
    /\ Archived = Scheduled
    /\ LegalDeliveries = Scheduled * CapBalls
    /\ \A i \in DOMAIN previous_innings :
          /\ BallsAccounted(previous_innings[i]) = CapBalls
          /\ ~InningsStats_all_out(previous_innings[i])

----------------------------------------------------------------------------
(* C23 *)

----------------------------------------------------------------------------
(* C24 *)

\* The delivery carries a no-ball or a wide
NoBallOrWide(ball) ==
    \E i \in DOMAIN ball.extras : ball.extras[i] \in {NoBall, Wide}

\* C24: a delivery carrying a no-ball or a wide leaves the ball count of the
\* over, the completed overs, the balls faced by the striker and the balls
\* bowled by the bowler unchanged, and its runs off the bat, its extras and its
\* dismissal are applied all the same; any other delivery adds one to the
\* striker's balls faced, to the bowler's balls bowled and to the ball count of
\* the over (which is then reset, the over counted, if the over is complete).
C24_OnlyLegalDeliveriesCount ==
    [][\A ball \in outcomes :
          (Update(ball) /\ ~complete(Self) /\ panicked' = NoPanic)
          => LET before == Current
                 after == AfterDelivery(previous_innings', current_innings_stats')
                 s == striker_idx(before.batting_stats) + 1
                 o == out_idx(before.batting_stats, unwrap(ball.wicket)) + 1
                 b == before.bowling_stats.current_bowler_index + 1
                 faced(inn) == inn.batting_stats.batters[s].stats.balls
                 bowled(inn) == inn.bowling_stats.bowler_stats[b].stats.balls
             IN  /\ NoBallOrWide(ball)
                       => /\ after.balls = before.balls
                          /\ after.overs = before.overs
                          /\ faced(after) = faced(before)
                          /\ bowled(after) = bowled(before)
                 /\ ~NoBallOrWide(ball)
                       => /\ faced(after) = faced(before) + 1
                          /\ bowled(after) = bowled(before) + 1
                          /\ \/ /\ before.balls + 1 < before.balls_per_over
                                /\ after.balls = before.balls + 1
                                /\ after.overs = before.overs
                             \/ /\ before.balls + 1 = before.balls_per_over
                                /\ after.balls = 0
                                /\ after.overs = before.overs + 1
                 /\ after.batting_stats.batters[s].stats.runs
                       = before.batting_stats.batters[s].stats.runs + Runs_runs(ball.runs)
                 /\ after.batting_stats.extras + Runs_runs(ball.runs)
                       = before.batting_stats.extras + DeliveryRuns(ball)
                 /\ is_some(ball.wicket)
                       => /\ after.batting_stats.batters[o].stats.out = ball.wicket
                          /\ InningsStats_wickets(after) = InningsStats_wickets(before) + 1
                 /\ is_none(ball.wicket)
                       => InningsStats_wickets(after) = InningsStats_wickets(before)]_vars

\* The opening striker is out stumped off a wide after a no-ball hit for four:
\* two deliveries, five runs and a wicket, and no ball counted anywhere
C24_Witness ==
    /\ panicked = NoPanic
    /\ is_some(current_innings_stats)
    /\ outcomes = EventOutcomes
    /\ budget = MaxEventBalls - 2
    /\ BallsAccounted(Current) = 0
    /\ Current.batting_stats.batters[1].stats
         = [runs |-> 4, balls |-> 0, out |-> Some("Stumped"), fours |-> 1, sixes |-> 0]
    /\ Current.batting_stats.extras = 2
    /\ Current.bowling_stats.bowler_stats[1].stats.balls = 0
    /\ Current.bowling_stats.bowler_stats[1].stats.wickets = 1

----------------------------------------------------------------------------
(* C25 *)

\* C25: the delivery that is the balls_per_over-th legal ball of an over
\* resets the ball count of the over to zero, adds one to the completed overs,
\* changes the current bowler, and flips the strike once more than the parity
\* of its runs does: the crease slot on strike changes exactly when the number
\* of odd items of the delivery is even, so that with no wicket an odd delivery
\* leaves the same batter on strike and an even one the other batter.
C25_OverCompletion ==
    [][\A ball \in outcomes :
          (Update(ball) /\ ~complete(Self) /\ panicked' = NoPanic
             /\ ~NoBallOrWide(ball) /\ Current.balls + 1 = Current.balls_per_over)
          => LET before == Current
                 after == AfterDelivery(previous_innings', current_innings_stats')
                 odd == OddItems(ball) % 2 = 1
             IN  /\ after.balls = 0
                 /\ after.overs = before.overs + 1
                 /\ (after.batting_stats.striker_a /= before.batting_stats.striker_a)
                       <=> ~odd
                 /\ (is_none(ball.wicket) /\ odd)
                       => /\ striker(after.batting_stats) = striker(before.batting_stats)
                          /\ non_striker(after.batting_stats)
                               = non_striker(before.batting_stats)
                 /\ (is_none(ball.wicket) /\ ~odd)
                       => /\ striker(after.batting_stats) = non_striker(before.batting_stats)
                          /\ non_striker(after.batting_stats)
                               = striker(before.batting_stats)
                 /\ current_bowler(after.bowling_stats) /= current_bowler(before.bowling_stats)
                 /\ after.bowling_stats.current_bowler_index
                       /= before.bowling_stats.current_bowler_index]_vars

\* A dot ball and then a single off the last ball of the first over: the over
\* is counted, the second bowler is on, and the opening striker faces again
C25_Witness ==
    /\ panicked = NoPanic
    /\ is_some(current_innings_stats)
    /\ outcomes = EventOutcomes
    /\ Current.overs = 1
    /\ Current.balls = 0
    /\ Current.batting_stats.batters[1].stats.runs = 1
    /\ Current.batting_stats.batters[1].stats.balls = Current.balls_per_over
    /\ Current.batting_stats.extras = 0
    /\ striker(Current.batting_stats) = Some(Current.batting_team.players[1])
    /\ Current.bowling_stats.current_bowler_index = 1
    /\ Len(Current.bowling_stats.bowler_stats) = 2

----------------------------------------------------------------------------
(* C26 *)

\* C26: a dismissal marks out the batter in the striker's crease slot, or the
\* one in the non-striker's slot if it is a non-striker run-out; that slot is
\* then given to the next roster player who has not batted, with a fresh
\* record, and only then is the strike swapped by the parity of the delivery;
\* the other batter keeps the crease slot and has the record the same delivery
\* without the dismissal gives, and no other record changes.
C26_DismissalReplacesBatter ==
    [][\A ball \in outcomes :
          (Update(ball) /\ ~complete(Self) /\ panicked' = NoPanic /\ is_some(ball.wicket))
          => LET before == Current.batting_stats
                 closed == AfterDelivery(previous_innings', current_innings_stats')
                 after == closed.batting_stats
                 plain == TeamBatting_update(before, [ball EXCEPT !.wicket = None]).st
                 out_in_a == before.striker_a /= (ball.wicket = Some("RunOutNonStriker"))
                 o == IF out_in_a THEN before.batter_a ELSE before.batter_b
                 k == IF out_in_a THEN before.batter_b ELSE before.batter_a
                 n == Len(before.batters)
             IN  /\ after.batters[o + 1].stats.out = ball.wicket
                 /\ after.batters[o + 1].player = before.batters[o + 1].player
                 /\ after.batters[k + 1] = plain.batters[k + 1]
                 /\ is_none(after.batters[k + 1].stats.out)
                 /\ (IF out_in_a THEN after.batter_b ELSE after.batter_a) = k
                 /\ (IF out_in_a THEN after.batter_a ELSE after.batter_b) = n
                 /\ n < Len(Current.batting_team.players)
                       => after.batters
                            = [i \in 1..(n + 1) |->
                                 IF i = n + 1
                                 THEN BatterEntry(Current.batting_team.players[n + 1])
                                 ELSE IF i = o + 1
                                 THEN [plain.batters[i] EXCEPT !.stats.out = ball.wicket]
                                 ELSE plain.batters[i]]
                 /\ \A i \in 1..n :
                       i \notin {o + 1, k + 1} => after.batters[i] = before.batters[i]
                 /\ closed.overs = Current.overs
                       => ((after.striker_a /= before.striker_a)
                              <=> (OddItems(ball) % 2 = 1))]_vars

\* The first ball is a single on which the non-striker is run out: the second
\* opener is out, the third roster player has the slot and, the batters having
\* crossed, is on strike; the opening striker has a run from one ball
C26_Witness ==
    /\ panicked = NoPanic
    /\ is_some(current_innings_stats)
    /\ outcomes = EventOutcomes
    /\ budget = MaxEventBalls - 1
    /\ Current.batting_stats.batters[2].stats.out = Some("RunOutNonStriker")
    /\ Current.batting_stats.batters[1].stats
         = [runs |-> 1, balls |-> 1, out |-> None, fours |-> 0, sixes |-> 0]
    /\ Current.batting_stats.batter_a = 0
    /\ Current.batting_stats.batter_b = 2
    /\ Current.batting_stats.batters[3] = BatterEntry(Current.batting_team.players[3])
    /\ striker(Current.batting_stats) = Some(Current.batting_team.players[3])


----------------------------------------------------------------------------
(* C27 *)

\* The number of no-ball and wide extras of the delivery
NoBallsAndWides(ball) == count_extras(ball, "NoBall") + count_extras(ball, "Wide")

\* The runs conceded by every bowler but the one at index b (1-based) are the
\* same in both innings records; bowlers who came on since have conceded none
OtherBowlersRunsKept(before, after, b) ==
    /\ Len(after.bowling_stats.bowler_stats) >= Len(before.bowling_stats.bowler_stats)
    /\ \A i \in DOMAIN after.bowling_stats.bowler_stats :
          i /= b => after.bowling_stats.bowler_stats[i].stats.runs
                      = IF i \in DOMAIN before.bowling_stats.bowler_stats
                        THEN before.bowling_stats.bowler_stats[i].stats.runs
                        ELSE 0

\* The delivery, taken by the batting half of the innings, is applied and adds
\* to the runs conceded by the bowler of the delivery its runs off the bat plus
\* one for each no-ball and wide, and nothing to any other bowler
ChargedExactly(ball) ==
    LET before == Current
        after == AfterDelivery(previous_innings', current_innings_stats')
        b == before.bowling_stats.current_bowler_index + 1
    IN  /\ panicked' = NoPanic
        /\ after.bowling_stats.bowler_stats[b].stats.runs
             = before.bowling_stats.bowler_stats[b].stats.runs
                 + Runs_runs(ball.runs) + NoBallsAndWides(ball)
        /\ OtherBowlersRunsKept(before, after, b)

\* A delivery the batting half of the innings takes without failure
BattingTakes(ball) ==
    TeamBatting_update(Current.batting_stats, ball).panic = NoPanic

\* C27: each delivery adds to the runs conceded by the current bowler exactly
\* its runs off the bat plus one run for each no-ball or wide extra; bye,
\* leg-bye and penalty runs add nothing to the runs conceded by any bowler.
C27_BowlerRunsConceded ==
    [][\A ball \in outcomes :
          (Update(ball) /\ ~complete(Self) /\ BattingTakes(ball))
          => ChargedExactly(ball)]_vars

\* C27 for the deliveries whose chargeable runs fit in the u8 local of update
C27_BowlerRunsConcededWithinWidth ==
    [][\A ball \in outcomes :
          (Update(ball) /\ ~complete(Self) /\ BattingTakes(ball)
             /\ ~bowler_runs_overflows(ball))
          => ChargedExactly(ball)]_vars

\* A no-ball hit for four, a leg bye off a no-ball and a penalty run: the
\* opening bowler has conceded six of the eight runs of the innings
C27_Witness ==
    /\ panicked = NoPanic
    /\ is_some(current_innings_stats)
    /\ outcomes = ChargeOutcomes
    /\ budget = 0
    /\ InningsStats_runs(Current) = 8
    /\ Current.batting_stats.extras = 4
    /\ Current.bowling_stats.bowler_stats[1].stats.runs = 6
    /\ Current.bowling_stats.bowler_stats[1].stats.no_balls = 2
    /\ Len(Current.bowling_stats.bowler_stats) = 1

\* The all-run no-ball was submitted: the build with overflow checks stopped
\* in the bowling half, the other charged the bowler nothing for 256 runs
C27_OverflowReached ==
    /\ outcomes = ChargeOutcomes
    /\ budget = MaxChargeBalls - 1
    /\ \/ panicked = PanicOverflow
       \/ /\ panicked = NoPanic
          /\ is_some(current_innings_stats)
          /\ Current.batting_stats.batters[1].stats.runs = U8 - 1
          /\ Current.bowling_stats.bowler_stats[1].stats.runs = 0
          /\ Current.bowling_stats.bowler_stats[1].stats.no_balls = 1

----------------------------------------------------------------------------
(* C28 *)

\* The number of legal deliveries among the given ones
LegalAmong(over) == Cardinality({i \in DOMAIN over : legal(over[i])})

\* The deliveries of the over in progress once the entry is submitted: a
\* declaration and the last legal ball of an over leave none
OverAfter(over, entry, balls_per_over) ==
    IF entry.op = "declare"
    THEN <<>>
    ELSE IF LegalAmong(Append(over, entry.ball)) >= balls_per_over
    THEN <<>>
    ELSE Append(over, entry.ball)

\* The deliveries of the over in progress, legal or not, read off the log of
\* the calls made on a match that is still in play
RECURSIVE OverOf(_, _)
OverOf(journal, balls_per_over) ==
    IF journal = <<>>
    THEN <<>>
    ELSE OverAfter(OverOf(Front(journal), balls_per_over), journal[Len(journal)],
                   balls_per_over)

\* The maiden overs of the bowler at index i (1-based) in the innings record,
\* none for a bowler who has not come on
MaidensOf(inn, i) ==
    IF i \in DOMAIN inn.bowling_stats.bowler_stats
    THEN inn.bowling_stats.bowler_stats[i].stats.maiden_overs
    ELSE 0

----------------------------------------------------------------------------
(* C29 *)

\* The wickets credited to the bowler at index i (1-based) in the innings
\* record, none for a bowler who has not come on
WicketsOf(inn, i) ==
    IF i \in DOMAIN inn.bowling_stats.bowler_stats
    THEN inn.bowling_stats.bowler_stats[i].stats.wickets
    ELSE 0

\* The wickets credited to all the bowlers of the innings
BowlersWickets(inn) ==
    SumSeq([i \in DOMAIN inn.bowling_stats.bowler_stats |-> WicketsOf(inn, i)])

\* The innings in progress, if any, and the archived ones
AllInnings ==
    {previous_innings[i] : i \in DOMAIN previous_innings}
      \cup {current_innings_stats[i] : i \in DOMAIN current_innings_stats}

\* C29: every delivery with a dismissal, a run-out included, adds exactly one
\* wicket to the record of the current bowler and none to any other bowler, a
\* delivery without a dismissal adds none to any bowler, and in every innings,
\* in progress or archived, the wickets of all the bowlers add up to the
\* wickets fallen of the batting side.
C29_BowlerCreditedEveryWicket ==
    /\ [](panicked = NoPanic
            => \A inn \in AllInnings : BowlersWickets(inn) = InningsStats_wickets(inn))
    /\ [][\A ball \in outcomes :
             (Update(ball) /\ ~complete(Self) /\ panicked' = NoPanic)
             => LET before == Current
                    after == AfterDelivery(previous_innings', current_innings_stats')
                    b == before.bowling_stats.current_bowler_index + 1
                IN  /\ WicketsOf(after, b)
                         = WicketsOf(before, b) + (IF is_some(ball.wicket) THEN 1 ELSE 0)
                    /\ \A i \in DOMAIN after.bowling_stats.bowler_stats :
                          i /= b => WicketsOf(after, i) = WicketsOf(before, i)]_vars

\* The striker is run out going for a single and the innings is declared; in
\* the second innings the striker is bowled and, in the next over, the
\* non-striker run out: one wicket to one bowler there, two to two bowlers here
C29_Witness ==
    /\ panicked = NoPanic
    /\ is_some(current_innings_stats)
    /\ outcomes = CreditOutcomes
    /\ Len(previous_innings) = 1
    /\ InningsStats_wickets(previous_innings[1]) = 1
    /\ \E i \in DOMAIN previous_innings[1].batting_stats.batters :
          previous_innings[1].batting_stats.batters[i].stats.out = Some("RunOutStriker")
    /\ WicketsOf(previous_innings[1], 1) = 1
    /\ InningsStats_wickets(Current) = 2
    /\ WicketsOf(Current, 1) = 1
    /\ WicketsOf(Current, 2) = 1
    /\ \E i \in DOMAIN Current.batting_stats.batters :
          Current.batting_stats.batters[i].stats.out = Some("RunOutNonStriker")

----------------------------------------------------------------------------
(* C30 *)

\* C30: no call changes an archived innings record: every delivery,
\* declaration and innings start leaves each archived innings (its batting
\* and bowling records, extras, overs and balls) as it was when it was
\* archived, the archive growing by at most the innings that was in progress;
\* and an archived innings is never the current innings again: the current
\* innings that follows an archiving is a newly built one.
C30_ArchivedInningsAreFrozen ==
    [][/\ Len(previous_innings') \in {Len(previous_innings), Len(previous_innings) + 1}
       /\ \A i \in DOMAIN previous_innings : previous_innings'[i] = previous_innings[i]
       /\ Len(previous_innings') = Len(previous_innings)
             => (is_some(current_innings_stats') <=> is_some(current_innings_stats))
       /\ Len(previous_innings') = Len(previous_innings) + 1
             => /\ is_some(current_innings_stats)
                /\ \/ previous_innings'[Len(previous_innings')] = Current
                   \/ \E ball \in outcomes :
                         previous_innings'[Len(previous_innings')]
                           = InningsStats_update(Current, ball).st
                /\ is_some(current_innings_stats') /\ panicked' = NoPanic
                      => Fresh(unwrap(current_innings_stats'))]_vars

\* Two innings are in the archive, the first with a run and a wide, the second
\* with a wicket, and the third innings has had a delivery since
C30_Witness ==
    /\ panicked = NoPanic
    /\ is_some(current_innings_stats)
    /\ outcomes = MatchOutcomes
    /\ budget = 0
    /\ Len(previous_innings) = 2
    /\ InningsStats_runs(previous_innings[1]) = 2
    /\ previous_innings[1].batting_stats.extras = 1
    /\ InningsStats_wickets(previous_innings[2]) = 1
    /\ BallsAccounted(Current) = 1

----------------------------------------------------------------------------
(* C31 *)

\* The players of the bowling records of the innings, in order
BowlersOf(inn) ==
    [i \in DOMAIN inn.bowling_stats.bowler_stats |->
        inn.bowling_stats.bowler_stats[i].player]

\* The two players the rotation of Team::bowlers alternates between
RotationOf(inn) ==
    {bowlers(inn.bowling_team).bowlers[1], bowlers(inn.bowling_team).bowlers[2]}

\* C31: at every over change the next bowler resumes the bowling record they
\* already have in the innings, found unchanged, or else gets a fresh zeroed
\* record appended; no other delivery changes the list of bowlers or the
\* current bowler; so the bowling records of an innings never hold the same
\* player twice and, with the two-bowler rotation of Team::bowlers, never
\* number more than two.
C31_BowlerRecordsResumed ==
    /\ [](panicked = NoPanic
            => \A inn \in AllInnings :
                  /\ \A i, j \in DOMAIN BowlersOf(inn) :
                        BowlersOf(inn)[i] = BowlersOf(inn)[j] => i = j
                  /\ Len(BowlersOf(inn)) <= 2
                  /\ \A i \in DOMAIN BowlersOf(inn) : BowlersOf(inn)[i] \in RotationOf(inn))
    /\ [][\A ball \in outcomes :
             (Update(ball) /\ ~complete(Self) /\ panicked' = NoPanic)
             => LET before == Current
                    after == AfterDelivery(previous_innings', current_innings_stats')
                    next_bowler == current_bowler(after.bowling_stats)
                    n == Len(BowlersOf(before))
                    idx == after.bowling_stats.current_bowler_index + 1
                IN  /\ after.overs = before.overs
                          => /\ BowlersOf(after) = BowlersOf(before)
                             /\ idx = before.bowling_stats.current_bowler_index + 1
                    /\ (after.overs = before.overs + 1
                          /\ \E i \in 1..n : BowlersOf(before)[i] = next_bowler)
                          => /\ BowlersOf(after) = BowlersOf(before)
                             /\ BowlersOf(before)[idx] = next_bowler
                             /\ after.bowling_stats.bowler_stats[idx]
                                  = before.bowling_stats.bowler_stats[idx]
                    /\ (after.overs = before.overs + 1
                          /\ \A i \in 1..n : BowlersOf(before)[i] /= next_bowler)
                          => /\ BowlersOf(after) = Append(BowlersOf(before), next_bowler)
                             /\ idx = n + 1
                             /\ after.bowling_stats.bowler_stats[idx].stats
                                  = BowlerInningsStats_default]_vars

\* Two overs are complete: the opening bowler is on again, with the wicket of
\* the first over still on a record that is one of two
C31_Witness ==
    /\ panicked = NoPanic
    /\ is_some(current_innings_stats)
    /\ outcomes = EventOutcomes
    /\ Current.overs = 2
    /\ Len(BowlersOf(Current)) = 2
    /\ Current.bowling_stats.current_bowler_index = 0
    /\ Current.bowling_stats.bowler_stats[1].stats.wickets = 1
    /\ Current.bowling_stats.bowler_stats[1].stats.balls = ShortOver
    /\ Current.bowling_stats.bowler_stats[2].stats.balls = ShortOver

----------------------------------------------------------------------------
(* C32 *)

\* The runs of every batter record of the innings, in order
BattersRuns(inn) ==
    [i \in DOMAIN inn.batting_stats.batters |-> inn.batting_stats.batters[i].stats.runs]

\* The runs conceded in every bowler record of the innings present in `upto`
BowlersRunsIn(inn, upto) ==
    [i \in DOMAIN upto.bowling_stats.bowler_stats |->
        inn.bowling_stats.bowler_stats[i].stats.runs]

\* C32: a bye or leg bye that reaches the boundary is scored as four extras:
\* the delivery is applied without failure, adds 4 to the team extras and
\* nothing to the runs of any batter or to the runs conceded by any bowler, and
\* swaps the strike only if it completes the over.
C32_BoundaryByeIsFourExtras ==
    [][\A ball \in outcomes :
          (Update(ball) /\ ~complete(Self) /\ bye_is_boundary(ball))
          => LET before == Current
                 after == AfterDelivery(previous_innings', current_innings_stats')
             IN  /\ panicked' = NoPanic
                 /\ after.batting_stats.extras = before.batting_stats.extras + 4
                 /\ BattersRuns(after) = BattersRuns(before)
                 /\ BowlersRunsIn(after, before) = BowlersRunsIn(before, before)
                 /\ (after.batting_stats.striker_a /= before.batting_stats.striker_a)
                       <=> after.overs = before.overs + 1]_vars

\* A bye to the boundary was submitted on the first ball: the four extras are
\* on the board and the match has stopped on unreachable!()
C32_BoundaryByePanics ==
    /\ outcomes = BoundaryOutcomes
    /\ budget = MaxBoundaryBalls - 1
    /\ panicked = PanicUnreachable
    /\ is_some(current_innings_stats)
    /\ Current.batting_stats.extras = 4
    /\ Current.balls = 0

----------------------------------------------------------------------------
(* C33 *)

\* The dismissal of the delivery names a player with no batting record in
\* the innings
NamesNoRecord(inn, ball) ==
    /\ is_some(ball.wicket)
    /\ is_none(batter_position(inn.batting_stats, unwrap(ball.wicket).out_id))

\* The balls faced by all the batters and the balls bowled by all the bowlers
BallsFaced(inn) ==
    SumSeq([i \in DOMAIN inn.batting_stats.batters |->
               inn.batting_stats.batters[i].stats.balls])

BallsBowled(inn) ==
    SumSeq([i \in DOMAIN inn.bowling_stats.bowler_stats |->
               inn.bowling_stats.bowler_stats[i].stats.balls])

\* C33: a delivery whose dismissal names a player with no batting record in
\* the current innings makes update return the player-not-found failure and
\* leaves the innings as it was: no ball, run or extra of the delivery is
\* recorded on the batting side, and the balls faced still equal the balls
\* bowled.
C33_UnknownBatterLeavesStats ==
    [][\A ball \in outcomes :
          (StatsUpdate(ball) /\ NamesNoRecord(Current, ball))
          => /\ panicked' = NoPanic
             /\ returned' = Some(ErrPlayerNotFound)
             /\ unwrap(current_innings_stats').batting_stats = Current.batting_stats
             /\ BallsFaced(unwrap(current_innings_stats'))
                  = BallsBowled(unwrap(current_innings_stats'))]_vars

\* The failure alone: such a delivery makes update return PlayerNotFound, and
\* no other delivery does
C33_UnknownBatterIsReported ==
    [][\A ball \in outcomes :
          StatsUpdate(ball)
          => (returned' = Some(ErrPlayerNotFound) <=> NamesNoRecord(Current, ball))]_vars

\* update has returned PlayerNotFound for a single that named the fifth
\* batter as out: the striker has the run and the ball, the bowler has neither
C33_PartialUpdate ==
    /\ outcomes = StatsOutcomes
    /\ budget = MaxStatsBalls - 1
    /\ panicked = NoPanic
    /\ returned = Some(ErrPlayerNotFound)
    /\ Current.batting_stats.batters[1].stats.runs = 1
    /\ Current.batting_stats.batters[1].stats.balls = 1
    /\ BallsFaced(Current) = 1
    /\ BallsBowled(Current) = 0
    /\ Current.bowling_stats.bowler_stats[1].stats.runs = 0
    /\ Current.balls = 0
----------------------------------------------------------------------------
(* C34: an innings that is all out *)

\* The innings held is all out and nothing has failed yet
AllOutHeld ==
    /\ panicked = NoPanic
    /\ is_some(current_innings_stats)
    /\ InningsStats_all_out(Current)

\* current_bowler() fails: its index is past the end of the bowler records
BowlerQueryFails ==
    Current.bowling_stats.current_bowler_index >= Len(Current.bowling_stats.bowler_stats)

\* C34: on an innings that is all out, the striker query, the non-striker
\* query and the bowler query all fail, and a further delivery fails and
\* leaves every statistic of the innings as it was, whichever crease slot is
\* the one that was not refilled
C34_AllOutInningsFailsLoudly ==
    /\ [](AllOutHeld => /\ is_none(striker(Current.batting_stats))
                        /\ is_none(non_striker(Current.batting_stats))
                        /\ BowlerQueryFails)
    /\ [][AllOutHeld => /\ panicked' /= NoPanic
                        /\ current_innings_stats' = current_innings_stats]_vars

\* What holds of an innings that is all out: the query of the crease slot
\* that was not refilled fails, exactly one of the two crease queries fails,
\* and a further delivery panics
C34_UnfilledSlotFails ==
    /\ [](AllOutHeld => is_none(striker(Current.batting_stats))
                           /= is_none(non_striker(Current.batting_stats)))
    /\ [][AllOutHeld => panicked' /= NoPanic]_vars

\* An all-out innings whose striker query returns a player, and one whose
\* further delivery was counted for the striker before the panic
C34_StrikerReturned ==
    /\ AllOutHeld
    /\ is_some(striker(Current.batting_stats))
    /\ is_none(non_striker(Current.batting_stats))

C34_StatisticChanged ==
    /\ panicked = PanicIndex
    /\ is_some(current_innings_stats)
    /\ TeamBatting_wickets(Current.batting_stats) = N_PLAYERS

----------------------------------------------------------------------------
(* C35: the crease of the innings in progress *)

\* Both crease slots of the batting half b index batter records, differ, and
\* the batters they index are not out
CreaseManned(b) ==
    /\ b.batter_a < Len(b.batters)
    /\ b.batter_b < Len(b.batters)
    /\ b.batter_a /= b.batter_b
    /\ is_none(b.batters[b.batter_a + 1].stats.out)
    /\ is_none(b.batters[b.batter_b + 1].stats.out)

\* C35: whenever the match is not complete, the innings in progress is not
\* all out: both crease slots index batter records, they differ, both batters
\* are not out, and the striker and non-striker queries return a player
C35_CreaseIsManned ==
    (panicked = NoPanic /\ ~complete(Self)) =>
        /\ ~InningsStats_all_out(Current)
        /\ CreaseManned(Current.batting_stats)
        /\ is_some(striker(Current.batting_stats))
        /\ is_some(non_striker(Current.batting_stats))

\* The first innings was closed all out by its tenth dismissal, the last
\* replacement having come in one ball before, and the second innings is open
C35_Witness ==
    /\ panicked = NoPanic
    /\ ~complete(Self)
    /\ Archived = 1
    /\ InningsStats_all_out(LastArchived)
    /\ Len(LastArchived.batting_stats.batters) = N_PLAYERS
    /\ CreaseManned(Current.batting_stats)

----------------------------------------------------------------------------
(* C36: the innings of each side *)

\* The number of archived innings that `team` batted
BattedArchived(team) ==
    Cardinality({i \in DOMAIN previous_innings :
                    TeamEq(previous_innings[i].batting_team, team)})

\* The number of innings `team` has batted or is batting
BattedInnings(team) ==
    BattedArchived(team)
      + (IF is_some(current_innings_stats) /\ TeamEq(Current.batting_team, team)
         THEN 1 ELSE 0)

\* The side batting the i-th innings started so far
BattingSide(i) ==
    IF i <= Len(previous_innings)
    THEN previous_innings[i].batting_team
    ELSE Current.batting_team

\* The number of innings started so far
Started == Archived + (IF is_some(current_innings_stats) THEN 1 ELSE 0)

\* C36: after any deliveries and declarations, when an even number 2k of
\* innings is archived each side has batted k of them; no side bats more
\* than innings-per-side innings; and the side that bats the second-to-last
\* scheduled innings does not bat the last one
C36_SidesBatEqually ==
    /\ Archived % 2 = 0
          => /\ 2 * BattedArchived(team_a) = Archived
             /\ 2 * BattedArchived(team_b) = Archived
    /\ BattedInnings(team_a) <= form.innings
    /\ BattedInnings(team_b) <= form.innings
    /\ Started = Scheduled
          => ~TeamEq(BattingSide(Scheduled - 1), BattingSide(Scheduled))

\* After a follow-on (the second and third innings batted by the same side)
\* four innings are archived
C36_Witness ==
    /\ Archived = 4
    /\ TeamEq(previous_innings[2].batting_team, previous_innings[3].batting_team)
    /\ BattedArchived(team_a) = 2
    /\ BattedArchived(team_b) = 2

----------------------------------------------------------------------------
(* C37: the final scheduled innings *)

\* The final scheduled innings is the innings in progress
FinalOpen ==
    /\ panicked = NoPanic
    /\ is_some(current_innings_stats)
    /\ Archived + 1 = Scheduled

\* C37: whenever the final scheduled innings is open, the cumulative score of
\* the batting side is at most the cumulative score of the bowling side
C37_FinalInningsNeverAhead ==
    FinalOpen =>
        team_score(Self, Current.batting_team) <= team_score(Self, Current.bowling_team)

\* The final innings is open after a delivery that levelled the scores
C37_Witness ==
    /\ FinalOpen
    /\ InningsStats_runs(Current) > 0
    /\ team_score(Self, Current.batting_team) = team_score(Self, Current.bowling_team)

----------------------------------------------------------------------------
(* C38: leading in an innings that is not the final one *)

\* The overs cap of the format is reached in the innings inn
CapOf(inn) ==
    /\ is_some(form.overs_per_innings)
    /\ inn.overs >= unwrap(form.overs_per_innings)

\* A delivery is applied to an innings that is not the final scheduled one
DeliveryBeforeFinal ==
    /\ panicked = NoPanic
    /\ panicked' = NoPanic
    /\ is_some(current_innings_stats)
    /\ Archived + 1 < Scheduled
    /\ budget' = budget - 1

\* The step leaves the innings in progress open, with the delivery counted
InningsStaysOpen ==
    /\ previous_innings' = previous_innings
    /\ is_some(current_innings_stats')
    /\ unwrap(current_innings_stats').batting_team = Current.batting_team
    /\ ~InningsStats_all_out(unwrap(current_innings_stats'))
    /\ ~CapOf(unwrap(current_innings_stats'))

\* The step archives the innings in progress, all out or at the overs cap
InningsClosesSpent ==
    /\ Len(previous_innings') = Archived + 1
    /\ \/ InningsStats_all_out(previous_innings'[Archived + 1])
       \/ CapOf(previous_innings'[Archived + 1])

\* C38: in an innings that is not the final scheduled one, a delivery closes
\* the innings only if it leaves it all out or at the overs cap, whatever the
\* scores of the sides: one that takes the batting side ahead leaves it open
C38_LeadDoesNotClose ==
    [][DeliveryBeforeFinal => (InningsStaysOpen \/ InningsClosesSpent)]_vars

\* The side that followed on has gone ahead in its second innings, the third
\* of four, and the innings is still open
C38_Witness ==
    /\ panicked = NoPanic
    /\ is_some(current_innings_stats)
    /\ form.innings = 2
    /\ Archived = 2
    /\ TeamEq(previous_innings[2].batting_team, Current.batting_team)
    /\ team_score(Self, Current.batting_team) > team_score(Self, Current.bowling_team)

----------------------------------------------------------------------------
(* C39: the two halves of an innings agree *)

\* The runs conceded by all the bowlers of the innings
RunsConceded(inn) ==
    SumSeq([i \in DOMAIN inn.bowling_stats.bowler_stats |->
               inn.bowling_stats.bowler_stats[i].stats.runs])

\* The wides and no-balls counted against all the bowlers of the innings
WidesAndNoBalls(inn) ==
    SumSeq([i \in DOMAIN inn.bowling_stats.bowler_stats |->
               inn.bowling_stats.bowler_stats[i].stats.wides
                 + inn.bowling_stats.bowler_stats[i].stats.no_balls])

\* The bye, leg-bye and penalty runs of the delivery
UnchargedRuns(ball) ==
    SumSeq([i \in DOMAIN ball.extras |->
               IF ball.extras[i].kind \in {"Bye", "LegBye", "Penalty"}
               THEN Extra_runs(ball.extras[i]) ELSE 0])

\* The balls of the innings by its count of overs
BallsByOvers(inn) == inn.overs * inn.balls_per_over + inn.balls

\* The halves of the innings agree on the balls, and on the runs: the team
\* extras less one run for each wide and no-ball are the bye, leg-bye and
\* penalty runs
HalvesAgree(inn) ==
    /\ BallsFaced(inn) = BallsBowled(inn)
    /\ BallsBowled(inn) = BallsByOvers(inn)
    /\ InningsStats_runs(inn)
         = RunsConceded(inn) + (inn.batting_stats.extras - WidesAndNoBalls(inn))

\* A delivery has just been applied: the last entry of the log
DeliveryApplied ==
    /\ panicked = NoPanic
    /\ panicked' = NoPanic
    /\ is_some(current_innings_stats)
    /\ Len(unwrap(log')) = Len(unwrap(log)) + 1
    /\ unwrap(log')[Len(unwrap(log'))].op = "update"

\* The innings in progress as the step leaves it, archived or not
InningsAfter ==
    IF Len(previous_innings') > Archived
    THEN previous_innings'[Archived + 1]
    ELSE unwrap(current_innings_stats')

\* The team runs the delivery adds are the runs it adds to the bowlers plus
\* its bye, leg-bye and penalty runs
RunsAgreeOnDelivery ==
    InningsStats_runs(InningsAfter) - InningsStats_runs(Current)
      = (RunsConceded(InningsAfter) - RunsConceded(Current))
          + UnchargedRuns(unwrap(log')[Len(unwrap(log'))].ball)

----------------------------------------------------------------------------
(* C40: the batter records of an innings *)

\* The smaller of two numbers
Smaller(a, b) == IF a <= b THEN a ELSE b

\* The batter records of the innings are the first min(wickets + 2, roster
\* size) players of the roster of its batting side, in roster order, and no
\* crease slot indexes a batter who is out
RecordsFollowRoster(inn) ==
    LET b == inn.batting_stats
        roster == inn.batting_team.players
    IN  /\ Len(b.batters) = Smaller(TeamBatting_wickets(b) + 2, Len(roster))
        /\ \A i \in DOMAIN b.batters : b.batters[i].player = roster[i]
        /\ \A i, j \in DOMAIN b.batters :
               b.batters[i].player = b.batters[j].player => i = j
        /\ b.batter_a < Len(b.batters) => is_none(b.batters[b.batter_a + 1].stats.out)
        /\ b.batter_b < Len(b.batters) => is_none(b.batters[b.batter_b + 1].stats.out)

\* The innings has roster positions 1 and 2 at the crease, position 1 on strike
OpenersAtCrease(inn) ==
    /\ Len(inn.batting_stats.batters) = 2
    /\ striker(inn.batting_stats) = Some(inn.batting_team.players[1])
    /\ non_striker(inn.batting_stats) = Some(inn.batting_team.players[2])

\* A step that starts an innings starts it with the openers at the crease
OpensWithOpeners ==
    (panicked' = NoPanic /\ Len(previous_innings') > Archived
       /\ is_some(current_innings_stats'))
        => OpenersAtCrease(unwrap(current_innings_stats'))

\* A step that leaves the innings in progress open keeps its records, in
\* place, as the records of the same players, and a record that is out stays out
RecordsOnlyAppended ==
    (panicked = NoPanic /\ panicked' = NoPanic /\ is_some(current_innings_stats)
       /\ Len(previous_innings') = Archived /\ is_some(current_innings_stats'))
        => \A i \in DOMAIN Current.batting_stats.batters :
              /\ i \in DOMAIN unwrap(current_innings_stats').batting_stats.batters
              /\ unwrap(current_innings_stats').batting_stats.batters[i].player
                   = Current.batting_stats.batters[i].player
              /\ is_some(Current.batting_stats.batters[i].stats.out)
                   => unwrap(current_innings_stats').batting_stats.batters[i].stats.out
                        = Current.batting_stats.batters[i].stats.out

\* C40: in every innings, in progress or archived, the batter records are the
\* first min(wickets + 2, roster size) players of the batting side's roster
\* in order and without duplicates; every innings opens with roster positions
\* 1 and 2 at the crease and position 1 on strike; records are only ever
\* appended; and no batter who is out is in a crease slot
C40_RecordsFollowRoster ==
    /\ OpenersAtCrease(Current)
    /\ [](panicked = NoPanic => \A inn \in AllInnings : RecordsFollowRoster(inn))
    /\ [][OpensWithOpeners /\ RecordsOnlyAppended]_vars

\* The first innings was closed with all eleven batters recorded after ten
\* wickets, and the second has opened
C40_Witness ==
    /\ panicked = NoPanic
    /\ Archived = 1
    /\ TeamBatting_wickets(LastArchived.batting_stats) = N_PLAYERS - 1
    /\ Len(LastArchived.batting_stats.batters) = N_PLAYERS
    /\ is_some(current_innings_stats)
    /\ OpenersAtCrease(Current)

====
